---- MODULE Spec2Model ----
\* A model of the core of the xbow client library: the cursor-pagination
\* iterator (paginate, Collect) and the retry transport
\* (retryTransport.RoundTrip).
\*
\* Go values are represented as follows.  A pointer or a possibly-nil slice
\* is a sequence of length at most one: <<>> is nil and <<v>> points to v.
\* An error is a string; the nil error is the value Nil.
EXTENDS Integers, Sequences, FiniteSets, TLC

\* ------------------------------------------------------------------------
\* Bounds of the model
\* ------------------------------------------------------------------------

\* The server answers at most this many fetch calls in one iteration.
MaxFetch == 3

\* A page holds at most this many items.
MaxPageLen == 2

\* A sequence handed directly to Collect yields at most this many pairs.
MaxRaw == 4

\* This many RoundTrip calls run at once on one retryTransport.
NumCalls == 2

\* NewWebhookVerifier is given at most this many keys.
MaxKeys == 2

\* NewWebhookVerifier is given at most this many options.
MaxOpts == 2

\* The largest MaxAttempts a caller configures.
MaxAttemptsBound == 3

\* ------------------------------------------------------------------------
\* Values
\* ------------------------------------------------------------------------

\* The nil error.
Nil == "<nil>"

\* The errors paginate itself produces.
ErrNoCursor == "xbow: server indicated more pages but returned no cursor"
ErrSameCursor == "xbow: server returned same cursor, stopping to prevent infinite loop"

\* The errors a fetch call may return (the second is ctx.Err() of a
\* cancelled context).
FetchErrors == {"fetch failed", "context canceled"}

\* The zero value of the item type T.
Zero == 0

\* Cursor strings the server or the caller may use; "" is the empty cursor.
CursorStrings == {"", "c1", "c2"}

\* A *string NextCursor: nil or a pointer to a cursor string.
CursorPtrs == {<<>>} \cup {<<c>> : c \in CursorStrings}

\* The opts argument of paginate: nil or a pointer to a ListOptions.
OptsValues ==
    {<<>>, <<[Limit |-> 0, After |-> ""]>>, <<[Limit |-> 2, After |-> "c1"]>>}

\* The consumers of the iterator: Collect, and a range loop that may break
\* after any item.
Consumers == {"collect", "range"}

\* The item the server puts at position i of the page of its n-th answer.
\* Items are distinct so that order and origin of every item are visible.
ItemAt(n, i) == 10 * n + i

\* The items of the n-th answer when it holds len items.
PageItems(n, len) == [i \in 1..len |-> ItemAt(n, i)]

VARIABLES
    \* paginate and its consumer
    opts,        \* the opts argument
    consumer,    \* which consumer ranges over the sequence
    pc,          \* position in paginate: start, fetch, items, done (idle: unused)
    cursor,      \* local cursor
    limit,       \* local limit
    page,        \* the page being yielded, <<>> before the first fetch
    idx,         \* index of the next item of page to yield
    fetchLog,    \* the ListOptions of every fetch call, in order
    pageLog,     \* the result of every fetch call: [page, err]
    yielded,     \* every pair yield was called with: [item, err]
    stopped,     \* yield has returned false
    items,       \* the consumer's accumulated items
    ret,         \* Collect's return value: <<>> or <<[items, err]>>
    \* a sequence handed directly to Collect
    rawSeq,      \* the pairs the sequence would yield
    rawPos,      \* how many of them it has yielded
    \* retryTransport.RoundTrip
    policy,      \* t.policy
    method,      \* req.Method
    rpc,         \* position in RoundTrip: start, attempt, backoff, waiting, done
                 \* (idle: unused)
    attempt,     \* the loop variable
    respLog,     \* the result of every call of t.base.RoundTrip: [status, err]
    closed,      \* the calls whose response body RoundTrip has closed
    closes,      \* how many times RoundTrip has called Close on a response body
    reqBody,     \* req.Body: the bytes of the request body not yet read
    sent,        \* the body bytes every inner call read from req.Body
    waits,       \* the duration of every timer RoundTrip has started
    cancelled,   \* req.Context() is done
    rret,        \* RoundTrip's return value: <<>> or <<[resp, err]>>
    \* defaults() and backoff() called on their own
    rawPolicy,   \* the policy as the caller wrote it
    ppc,         \* raw, defaulted, backoff (idle: unused)
    boAttempt,   \* how many times backoff has been called: 0, 1, 2, ...
    boDelay,     \* the duration the last call returned: <<>> or <<d>>
    boPrev,      \* the duration the call before it returned: <<>> or <<d>>
    \* rateLimitTransport.RoundTrip
    lpc,         \* position in RoundTrip: start, admitted, done (idle: unused)
    lreqs,       \* the context of every request handed to RoundTrip so far
    lLog,        \* the calls of limiter.Wait and of base.RoundTrip, in order
    lrets,       \* what RoundTrip returned for every finished request
    \* WebhookVerifier.Verify
    verifier,    \* the verifier: [publicKeys, maxClockSkew, maxBodyBytes]
    now,         \* time.Now().Unix() at the call
    tsHeader,    \* the value of X-Signature-Timestamp, <<>> if absent
    sigHeader,   \* the value of X-Signature-Ed25519, <<>> if absent
    origBody,    \* the body stream the request arrived with
    rBody,       \* r.Body: the bytes still to be read and how the stream ends
    vpc,         \* request, verified, read, served (idle: unused)
    verr,        \* what Verify returned: <<>> or <<err>>
    bytesRead,   \* how many bytes Verify read from the arriving stream
    downstream,  \* what a reader of r.Body got after Verify: <<>> or <<[data, err]>>
    mwResp,      \* what the middleware wrote to w: <<>> or <<[status, body]>>
    nextLog,     \* what next got from r.Body, once for every call of next.ServeHTTP
    \* NewWebhookVerifier
    ctorKeys,    \* the keys argument: the PublicKey string of every key
    ctorOpts,    \* the options, in the order given
    ctorRet,     \* what NewWebhookVerifier returned: <<>> or <<[v, err]>>
    cpc,         \* call, done (idle: unused)
    \* several RoundTrip calls on one retryTransport
    calls        \* for every call its request and the locals of RoundTrip

pagVars == <<opts, consumer, pc, cursor, limit, page, idx, fetchLog, pageLog>>
conVars == <<yielded, stopped, items, ret>>
rawVars == <<rawSeq, rawPos>>
reqVars == <<closes, reqBody, sent>>
retryVars == <<policy, method, rpc, attempt, respLog, closed, waits, cancelled, rret,
               reqVars>>
polVars == <<rawPolicy, ppc, boAttempt, boDelay, boPrev>>
limVars == <<lpc, lreqs, lLog, lrets>>
hookVars == <<verifier, now, tsHeader, sigHeader, origBody, rBody, vpc, verr,
              bytesRead, downstream, mwResp, nextLog>>
ctorVars == <<ctorKeys, ctorOpts, ctorRet, cpc>>
concVars == <<calls>>
auxVars == <<ctorVars, concVars>>
restVars == <<polVars, limVars, hookVars, auxVars>>
vars == <<pagVars, conVars, rawVars, retryVars, restVars>>

\* ------------------------------------------------------------------------
\* Collect
\* ------------------------------------------------------------------------

\* The consumer's side of one yield call is a record [items, ret, cont]:
\* its accumulated items, Collect's return value if it returns, and cont,
\* what yield returns to the sequence.

\* CollectBody with the accumulated items dropped when an error arrives.
CollectBodyDiscards(its, item, err) ==
    IF err # Nil
    THEN [items |-> <<>>, ret |-> <<[items |-> <<>>, err |-> err]>>, cont |-> FALSE]
    ELSE [items |-> Append(its, item), ret |-> <<>>, cont |-> TRUE]

\* Collect's loop body for the pair (item, err).
CollectBody(its, item, err) ==
    IF err # Nil
    THEN [items |-> its, ret |-> <<[items |-> its, err |-> err]>>, cont |-> FALSE]
    ELSE [items |-> Append(its, item), ret |-> <<>>, cont |-> TRUE]

\* Collect's return after the sequence has ended.
CollectEnd(its) == <<[items |-> its, err |-> Nil]>>

\* The range loop of a caller that counts items and breaks when brk holds.
RangeBody(its, item, err, brk) ==
    IF err # Nil
    THEN [items |-> its, ret |-> <<>>, cont |-> FALSE]
    ELSE [items |-> Append(its, item), ret |-> <<>>, cont |-> ~brk]

\* One call of yield(item, err): the pair is recorded and the consumer's
\* body runs.  r is the body's outcome.
Yield(item, err, r) ==
    /\ yielded' = Append(yielded, [item |-> item, err |-> err])
    /\ items' = r.items
    /\ ret' = r.ret
    /\ stopped' = ~r.cont

\* The outcomes the consumer's body may have for the pair (item, err).
BodyOutcomes(item, err) ==
    IF consumer = "collect"
    THEN {CollectBody(items, item, err)}
    ELSE {RangeBody(items, item, err, brk) : brk \in BOOLEAN}

\* The sequence function returns without a further yield: the range
\* statement ends, and Collect returns its items with a nil error.
SeqReturns ==
    /\ ret' = IF consumer = "collect" /\ ret = <<>> THEN CollectEnd(items) ELSE ret
    /\ UNCHANGED <<yielded, stopped, items>>

\* ------------------------------------------------------------------------
\* paginate
\* ------------------------------------------------------------------------

\* Lines 62-72: the initial cursor and limit come from opts.
Start ==
    /\ pc = "start"
    /\ cursor' = IF opts # <<>> THEN opts[1].After ELSE ""
    /\ limit' = IF opts # <<>> THEN opts[1].Limit ELSE 0
    /\ pc' = "fetch"
    /\ UNCHANGED <<opts, consumer, page, idx, fetchLog, pageLog>>
    /\ UNCHANGED conVars
    /\ UNCHANGED rawVars
    /\ UNCHANGED retryVars
    /\ UNCHANGED restVars

\* PageOpts with the cursor never advanced past the caller's.
PageOptsStale ==
    [Limit |-> limit, After |-> IF opts # <<>> THEN opts[1].After ELSE ""]

\* The ListOptions built for the next fetch call.
PageOpts == [Limit |-> limit, After |-> cursor]

\* Lines 75-84, fetch succeeds: the server answers with a page.
FetchPage ==
    /\ pc = "fetch"
    /\ Len(fetchLog) < MaxFetch
    /\ \E len \in 0..MaxPageLen, more \in BOOLEAN, next \in CursorPtrs :
         LET p == [Items |-> PageItems(Len(fetchLog) + 1, len),
                   PageInfo |-> [NextCursor |-> next, HasMore |-> more]]
         IN /\ fetchLog' = Append(fetchLog, PageOpts)
            /\ pageLog' = Append(pageLog, [page |-> <<p>>, err |-> Nil])
            /\ page' = <<p>>
            /\ idx' = 1
            /\ pc' = "items"
    /\ UNCHANGED <<opts, consumer, cursor, limit>>
    /\ UNCHANGED conVars
    /\ UNCHANGED rawVars
    /\ UNCHANGED retryVars
    /\ UNCHANGED restVars

\* The answers of the API to a list request: some items and a next_cursor
\* that is absent, empty or a cursor.
ListResponses(n) ==
    [Items : {PageItems(n, len) : len \in 0..MaxPageLen}, NextCursor : CursorPtrs]

\* The list item built from one item of the response: its fields are
\* copied into the domain type.
ListItemFrom(item) == [ID |-> item]

\* The page conversion with has_more set for every cursor that is present.
PageFromResponseNonNil(r) ==
    [Items |-> [i \in 1..Len(r.Items) |-> ListItemFrom(r.Items[i])],
     PageInfo |-> [NextCursor |-> r.NextCursor,
                   HasMore |-> r.NextCursor # <<>>]]

\* assessmentsPageFromResponse, organizationsPageFromResponse and the other
\* page conversions: the items are converted one by one, NextCursor is
\* copied, and HasMore is r.NextCursor != nil && *r.NextCursor != "".
PageFromResponse(r) ==
    [Items |-> [i \in 1..Len(r.Items) |-> ListItemFrom(r.Items[i])],
     PageInfo |-> [NextCursor |-> r.NextCursor,
                   HasMore |-> r.NextCursor # <<>> /\ r.NextCursor[1] # ""]]

\* Lines 75-84 with the fetch of a resource's iterator (AllByAsset and the
\* like): the List method asks the API and, if the call succeeds, returns
\* the page its conversion function builds from the response.
FetchResource ==
    /\ pc = "fetch"
    /\ Len(fetchLog) < MaxFetch
    /\ \E r \in ListResponses(Len(fetchLog) + 1) :
         LET p == PageFromResponse(r)
         IN /\ fetchLog' = Append(fetchLog, PageOpts)
            /\ pageLog' = Append(pageLog, [page |-> <<p>>, err |-> Nil])
            /\ page' = <<p>>
            /\ idx' = 1
            /\ pc' = "items"
    /\ UNCHANGED <<opts, consumer, cursor, limit>>
    /\ UNCHANGED conVars
    /\ UNCHANGED rawVars
    /\ UNCHANGED retryVars
    /\ UNCHANGED restVars

\* FetchError with the error dropped instead of yielded.
FetchErrorSwallowed ==
    /\ pc = "fetch"
    /\ Len(fetchLog) < MaxFetch
    /\ \E e \in FetchErrors :
         /\ fetchLog' = Append(fetchLog, PageOpts)
         /\ pageLog' = Append(pageLog, [page |-> <<>>, err |-> e])
    /\ SeqReturns
    /\ pc' = "done"
    /\ UNCHANGED <<opts, consumer, cursor, limit, page, idx>>
    /\ UNCHANGED rawVars
    /\ UNCHANGED retryVars
    /\ UNCHANGED restVars

\* FetchError with the fetch tried again after the error was yielded.
FetchErrorRetries ==
    /\ pc = "fetch"
    /\ Len(fetchLog) < MaxFetch
    /\ \E e \in FetchErrors :
         /\ fetchLog' = Append(fetchLog, PageOpts)
         /\ pageLog' = Append(pageLog, [page |-> <<>>, err |-> e])
         /\ \E r \in BodyOutcomes(Zero, e) : Yield(Zero, e, r)
    /\ pc' = "fetch"
    /\ UNCHANGED <<opts, consumer, cursor, limit, page, idx>>
    /\ UNCHANGED rawVars
    /\ UNCHANGED retryVars
    /\ UNCHANGED restVars

\* Lines 80-84, fetch fails: the error is yielded and paginate returns.
FetchError ==
    /\ pc = "fetch"
    /\ Len(fetchLog) < MaxFetch
    /\ \E e \in FetchErrors :
         /\ fetchLog' = Append(fetchLog, PageOpts)
         /\ pageLog' = Append(pageLog, [page |-> <<>>, err |-> e])
         /\ \E r \in BodyOutcomes(Zero, e) : Yield(Zero, e, r)
    /\ pc' = "done"
    /\ UNCHANGED <<opts, consumer, cursor, limit, page, idx>>
    /\ UNCHANGED rawVars
    /\ UNCHANGED retryVars
    /\ UNCHANGED restVars

\* YieldItem with the result of yield ignored.
YieldItemIgnoresStop ==
    /\ pc = "items"
    /\ idx <= Len(page[1].Items)
    /\ \E r \in BodyOutcomes(page[1].Items[idx], Nil) :
         Yield(page[1].Items[idx], Nil, r)
    /\ pc' = "items"
    /\ idx' = idx + 1
    /\ UNCHANGED <<opts, consumer, cursor, limit, page, fetchLog, pageLog>>
    /\ UNCHANGED rawVars
    /\ UNCHANGED retryVars
    /\ UNCHANGED restVars

\* Lines 86-90: the next item of the page is yielded; paginate returns
\* when yield returns false.
YieldItem ==
    /\ pc = "items"
    /\ idx <= Len(page[1].Items)
    /\ \E r \in BodyOutcomes(page[1].Items[idx], Nil) :
         /\ Yield(page[1].Items[idx], Nil, r)
         /\ pc' = IF r.cont THEN "items" ELSE "done"
    /\ idx' = idx + 1
    /\ UNCHANGED <<opts, consumer, cursor, limit, page, fetchLog, pageLog>>
    /\ UNCHANGED rawVars
    /\ UNCHANGED retryVars
    /\ UNCHANGED restVars

\* PageVerdict with a cursor that does not advance taken for the end of the
\* listing.
PageVerdictSameEnds(p, cur) ==
    IF ~p.PageInfo.HasMore THEN "end"
    ELSE IF p.PageInfo.NextCursor = <<>> \/ p.PageInfo.NextCursor[1] = ""
    THEN ErrNoCursor
    ELSE IF p.PageInfo.NextCursor[1] = cur THEN "end"
    ELSE "advance"

\* PageVerdict with an empty page taken for the last one.
PageVerdictEmptyEnds(p, cur) ==
    IF ~p.PageInfo.HasMore \/ Len(p.Items) = 0 THEN "end"
    ELSE IF p.PageInfo.NextCursor = <<>> \/ p.PageInfo.NextCursor[1] = ""
    THEN ErrNoCursor
    ELSE IF p.PageInfo.NextCursor[1] = cur THEN ErrSameCursor
    ELSE "advance"

\* PageVerdict without the test for a cursor that does not advance.
PageVerdictNoSameCheck(p, cur) ==
    IF ~p.PageInfo.HasMore THEN "end"
    ELSE IF p.PageInfo.NextCursor = <<>> \/ p.PageInfo.NextCursor[1] = ""
    THEN ErrNoCursor
    ELSE "advance"

\* What lines 92-104 decide once the items of page p have been yielded,
\* cur being the cursor the page was fetched with.
PageVerdict(p, cur) ==
    IF ~p.PageInfo.HasMore THEN "end"
    ELSE IF p.PageInfo.NextCursor = <<>> \/ p.PageInfo.NextCursor[1] = ""
    THEN ErrNoCursor
    ELSE IF p.PageInfo.NextCursor[1] = cur THEN ErrSameCursor
    ELSE "advance"

\* Lines 92-104: after the last item, end the sequence, report a protocol
\* error, or advance the cursor and loop.
PageDone ==
    /\ pc = "items"
    /\ idx > Len(page[1].Items)
    /\ LET v == PageVerdict(page[1], cursor)
       IN \/ /\ v = "end"
             /\ pc' = "done"
             /\ cursor' = cursor
             /\ SeqReturns
          \/ /\ v \in {ErrNoCursor, ErrSameCursor}
             /\ \E r \in BodyOutcomes(Zero, v) : Yield(Zero, v, r)
             /\ pc' = "done"
             /\ cursor' = cursor
          \/ /\ v = "advance"
             /\ cursor' = page[1].PageInfo.NextCursor[1]
             /\ pc' = "fetch"
             /\ UNCHANGED conVars
    /\ UNCHANGED <<opts, consumer, limit, page, idx, fetchLog, pageLog>>
    /\ UNCHANGED rawVars
    /\ UNCHANGED retryVars
    /\ UNCHANGED restVars

\* ------------------------------------------------------------------------
\* A sequence handed directly to Collect
\* ------------------------------------------------------------------------

\* The pairs such a sequence may yield.
RawPairs ==
    {[item |-> 1, err |-> Nil], [item |-> 2, err |-> Nil],
     [item |-> Zero, err |-> "mid-stream error"]}

RECURSIVE SeqsUpTo(_, _)
\* All sequences over S of length at most n.
SeqsUpTo(S, n) ==
    IF n = 0 THEN {<<>>}
    ELSE LET shorter == SeqsUpTo(S, n - 1)
         IN shorter \cup {Append(s, x) : s \in {t \in shorter : Len(t) = n - 1}, x \in S}

\* The sequence yields its next pair to Collect's loop body; it yields no
\* more once yield has returned false.
RawYield ==
    /\ pc = "idle"
    /\ ~stopped
    /\ rawPos < Len(rawSeq)
    /\ LET p == rawSeq[rawPos + 1]
       IN Yield(p.item, p.err, CollectBody(items, p.item, p.err))
    /\ rawPos' = rawPos + 1
    /\ UNCHANGED rawSeq
    /\ UNCHANGED pagVars
    /\ UNCHANGED retryVars
    /\ UNCHANGED restVars

\* The sequence has yielded all its pairs and returns.
RawEnd ==
    /\ pc = "idle"
    /\ ~stopped
    /\ ret = <<>>
    /\ rawPos = Len(rawSeq)
    /\ SeqReturns
    /\ UNCHANGED rawVars
    /\ UNCHANGED pagVars
    /\ UNCHANGED retryVars
    /\ UNCHANGED restVars

\* ------------------------------------------------------------------------
\* RetryPolicy and retryTransport
\* ------------------------------------------------------------------------

\* Durations are counted in units of 100 ms.
DefaultMaxAttempts == 3
DefaultInitialBackoff == 5
DefaultMaxBackoff == 300
DefaultRetryableStatusCodes == <<429, 500, 502, 503, 504>>

\* defaults() with jitter switched on whenever it runs.
DefaultsEnablesJitter(p) ==
    [p EXCEPT
       !.MaxAttempts = IF @ <= 0 THEN DefaultMaxAttempts ELSE @,
       !.InitialBackoff = IF @ <= 0 THEN DefaultInitialBackoff ELSE @,
       !.MaxBackoff = IF @ <= 0 THEN DefaultMaxBackoff ELSE @,
       !.Jitter = TRUE,
       !.RetryableStatusCodes =
           IF @ = <<>> THEN <<DefaultRetryableStatusCodes>> ELSE @]

\* RetryPolicy.defaults(): unset fields get their default.
\* RetryableStatusCodes is <<>> for a nil slice and <<codes>> otherwise.
Defaults(p) ==
    [p EXCEPT
       !.MaxAttempts = IF @ <= 0 THEN DefaultMaxAttempts ELSE @,
       !.InitialBackoff = IF @ <= 0 THEN DefaultInitialBackoff ELSE @,
       !.MaxBackoff = IF @ <= 0 THEN DefaultMaxBackoff ELSE @,
       !.RetryableStatusCodes =
           IF @ = <<>> THEN <<DefaultRetryableStatusCodes>> ELSE @]

\* The policies a caller hands to newRetryTransport.
RawPolicies ==
    [MaxAttempts : 0..MaxAttemptsBound,
     InitialBackoff : {0, 1},
     MaxBackoff : {0, 3},
     Jitter : BOOLEAN,
     RetryableStatusCodes : {<<>>, <<<<503>>>>, <<<<>>>>},
     RetryPOST : BOOLEAN]

\* The request methods.
Methods == {"GET", "HEAD", "PUT", "DELETE", "POST", "PATCH", "OPTIONS"}

\* The status codes the inner transport answers with.
Statuses == {200, 404, 429, 503}

\* The error of a cancelled context, ctx.Err().
CtxErr == "context canceled"

\* The errors the inner transport may return instead of a response.
InnerErrors == {"connection refused"} \cup (IF cancelled THEN {CtxErr} ELSE {})

\* The results of one call of t.base.RoundTrip: a response with a status
\* and a nil error, or no response and an error.
InnerResults ==
    {[status |-> st, err |-> Nil] : st \in Statuses}
        \cup {[status |-> 0, err |-> e] : e \in InnerErrors}

\* isRetryableMethod with POST always taken for retryable.
isRetryableMethodPostAlways(p, m) ==
    m \in {"GET", "HEAD", "PUT", "DELETE", "POST"}

\* retryTransport.isRetryableMethod
isRetryableMethod(p, m) ==
    IF m \in {"GET", "HEAD", "PUT", "DELETE"} THEN TRUE
    ELSE IF m = "POST" THEN p.RetryPOST
    ELSE FALSE

\* retryTransport.isRetryableStatus
isRetryableStatus(p, status) ==
    \E i \in 1..Len(p.RetryableStatusCodes[1]) :
        p.RetryableStatusCodes[1][i] = status

RECURSIVE Pow2(_)
\* math.Pow(2, n) for an integer n >= 0.
Pow2(n) == IF n = 0 THEN 1 ELSE 2 * Pow2(n - 1)

\* The ceiling growing by initial_backoff per attempt instead of doubling.
BackoffCeilingLinear(p, att) ==
    LET b == p.InitialBackoff * (att + 1)
    IN IF b > p.MaxBackoff THEN p.MaxBackoff ELSE b

\* The ceiling retryTransport.backoff computes before jitter.
BackoffCeiling(p, att) ==
    LET b == p.InitialBackoff * Pow2(att)
    IN IF b > p.MaxBackoff THEN p.MaxBackoff ELSE b

\* backoff with the ceiling itself among the jittered durations.
backoffInclusive(p, att) ==
    IF p.Jitter
    THEN 0..BackoffCeiling(p, att)
    ELSE {BackoffCeiling(p, att)}

\* retryTransport.backoff: the durations it may return.  With jitter,
\* rand.Int draws from [0, ceiling).
backoff(p, att) ==
    IF p.Jitter
    THEN 0..(BackoffCeiling(p, att) - 1)
    ELSE {BackoffCeiling(p, att)}

\* RoundTrip returns resp (the number of the inner call whose response it
\* is, 0 for a nil response) and err.
Return(resp, err) == <<[resp |-> resp, err |-> err]>>

\* The request bodies: none, and a stream of two bytes.
RequestBodies == {<<>>, <<123, 125>>}

\* t.base.RoundTrip(req) reads the next k bytes of req.Body: the inner
\* transport sends what the stream still delivers.
InnerReads(k) ==
    /\ sent' = Append(sent, SubSeq(reqBody, 1, k))
    /\ reqBody' = SubSeq(reqBody, k + 1, Len(reqBody))

\* Lines 225-227: a request whose method is not retryable goes to the
\* inner transport once and its result is returned.
RoundTripDirect ==
    /\ rpc = "start"
    /\ ~isRetryableMethod(policy, method)
    /\ \E res \in InnerResults :
         /\ respLog' = Append(respLog, res)
         /\ rret' = Return(IF res.err = Nil THEN Len(respLog) + 1 ELSE 0, res.err)
    /\ \E k \in 0..Len(reqBody) : InnerReads(k)
    /\ rpc' = "done"
    /\ UNCHANGED <<policy, method, attempt, closed, waits, cancelled, closes>>
    /\ UNCHANGED <<pagVars, conVars, rawVars>>
    /\ UNCHANGED restVars

\* AttemptVerdict with the last attempt taken to be number MaxAttempts.
AttemptVerdictOffByOne(p, att, res) ==
    IF res.err # Nil THEN "error"
    ELSE IF ~isRetryableStatus(p, res.status) THEN "return"
    ELSE IF att = p.MaxAttempts THEN "return"
    ELSE "retry"

\* AttemptVerdict with a transport error retried like a retryable status.
AttemptVerdictRetriesErrors(p, att, res) ==
    IF res.err = Nil /\ ~isRetryableStatus(p, res.status) THEN "return"
    ELSE IF att = p.MaxAttempts - 1
    THEN (IF res.err # Nil THEN "error" ELSE "return")
    ELSE "retry"

\* AttemptVerdict with every status from 400 on retried.
AttemptVerdictRetriesClientErrors(p, att, res) ==
    IF res.err # Nil THEN "error"
    ELSE IF ~(isRetryableStatus(p, res.status) \/ res.status >= 400) THEN "return"
    ELSE IF att = p.MaxAttempts - 1 THEN "return"
    ELSE "retry"

\* Lines 233-244: what one pass of the loop decides about the result res
\* of the inner call of zero-based attempt att.
AttemptVerdict(p, att, res) ==
    IF res.err # Nil THEN "error"
    ELSE IF ~isRetryableStatus(p, res.status) THEN "return"
    ELSE IF att = p.MaxAttempts - 1 THEN "return"
    ELSE "retry"

\* CloseBody with the body left open.
CloseBodyLeaks(n) == UNCHANGED <<closed, closes>>

\* Line 245: resp.Body.Close() on the response of inner call n.
CloseBody(n) ==
    /\ closed' = closed \cup {n}
    /\ closes' = closes + 1

\* WaitDelays with the delay of the attempt to come.
WaitDelaysNext(att) == backoff(policy, att + 1)

\* Lines 247-248: the durations the timer may be started with after
\* zero-based attempt att, t.backoff(attempt).
WaitDelays(att) == backoff(policy, att)

\* Lines 231-248: one pass of the loop up to the start of the timer.
\* The loop body is entered only while attempt < MaxAttempts, which
\* defaults() makes at least 1.
Attempt ==
    /\ \/ rpc = "start" /\ isRetryableMethod(policy, method)
       \/ rpc = "attempt"
    /\ attempt < policy.MaxAttempts
    /\ \E res \in InnerResults :
         LET n == Len(respLog) + 1
             v == AttemptVerdict(policy, attempt, res)
         IN /\ respLog' = Append(respLog, res)
            /\ \/ /\ v = "error"
                  /\ rret' = Return(0, res.err)
                  /\ rpc' = "done"
                  /\ UNCHANGED <<closed, closes, waits>>
               \/ /\ v = "return"
                  /\ rret' = Return(n, Nil)
                  /\ rpc' = "done"
                  /\ UNCHANGED <<closed, closes, waits>>
               \/ /\ v = "retry"
                  /\ CloseBody(n)
                  /\ \E d \in WaitDelays(attempt) : waits' = Append(waits, d)
                  /\ rpc' = "backoff"
                  /\ UNCHANGED rret
    /\ \E k \in 0..Len(reqBody) : InnerReads(k)
    /\ UNCHANGED <<policy, method, attempt, cancelled>>
    /\ UNCHANGED <<pagVars, conVars, rawVars>>
    /\ UNCHANGED restVars

\* Lines 249-255: the select statement.  In position backoff the timer
\* runs and RoundTrip is about to evaluate the select; in position waiting
\* it is blocked in the select with neither channel ready, and the first
\* channel to become ready decides the case.  A select that finds both
\* channels ready takes either case.

\* case <-timer.C: the timer has fired, before the select was evaluated or
\* while RoundTrip was blocked in it, and the loop goes on.
BackoffElapsed ==
    /\ rpc \in {"backoff", "waiting"}
    /\ attempt' = attempt + 1
    /\ rpc' = "attempt"
    /\ UNCHANGED <<policy, method, respLog, closed, waits, cancelled, rret>>
    /\ UNCHANGED reqVars
    /\ UNCHANGED <<pagVars, conVars, rawVars>>
    /\ UNCHANGED restVars

\* The select finds neither channel ready and blocks.
BackoffWait ==
    /\ rpc = "backoff"
    /\ ~cancelled
    /\ rpc' = "waiting"
    /\ UNCHANGED <<policy, method, attempt, respLog, closed, waits, cancelled, rret>>
    /\ UNCHANGED reqVars
    /\ UNCHANGED <<pagVars, conVars, rawVars>>
    /\ UNCHANGED restVars

\* WaitCancelled with the cancellation noticed only after the timer, as
\* with a plain sleep.
WaitCancelledSleeps ==
    /\ rpc = "waiting"
    /\ ~cancelled
    /\ cancelled' = TRUE
    /\ UNCHANGED <<policy, method, rpc, attempt, respLog, closed, waits, rret>>
    /\ UNCHANGED reqVars
    /\ UNCHANGED <<pagVars, conVars, rawVars>>
    /\ UNCHANGED restVars

\* Lines 250-252: the context is cancelled while RoundTrip is blocked in
\* the select; Done() becomes ready first, the timer is stopped and
\* RoundTrip returns the context's error.
WaitCancelled ==
    /\ rpc = "waiting"
    /\ ~cancelled
    /\ cancelled' = TRUE
    /\ rret' = Return(0, CtxErr)
    /\ rpc' = "done"
    /\ UNCHANGED <<policy, method, attempt, respLog, closed, waits>>
    /\ UNCHANGED reqVars
    /\ UNCHANGED <<pagVars, conVars, rawVars>>
    /\ UNCHANGED restVars

\* Lines 250-252, case <-req.Context().Done() for a context that was already
\* done when the select was evaluated.
BackoffCancelled ==
    /\ rpc = "backoff"
    /\ cancelled
    /\ rret' = Return(0, CtxErr)
    /\ rpc' = "done"
    /\ UNCHANGED <<policy, method, attempt, respLog, closed, waits, cancelled>>
    /\ UNCHANGED reqVars
    /\ UNCHANGED <<pagVars, conVars, rawVars>>
    /\ UNCHANGED restVars

\* The caller cancels the request's context while RoundTrip runs and is
\* not blocked in the select.
CancelContext ==
    /\ rpc \in {"start", "attempt", "backoff"}
    /\ ~cancelled
    /\ cancelled' = TRUE
    /\ UNCHANGED <<policy, method, rpc, attempt, respLog, closed, waits, rret>>
    /\ UNCHANGED reqVars
    /\ UNCHANGED <<pagVars, conVars, rawVars>>
    /\ UNCHANGED restVars

\* ------------------------------------------------------------------------
\* Several RoundTrip calls on one retryTransport
\* ------------------------------------------------------------------------

\* The calls.  calls[c] holds the request of call c (its method, whether
\* its context is cancelled) and the locals of its RoundTrip: the position
\* pc, the loop variable attempt, the results of its inner calls, the
\* responses it closed, the durations of its timers and what it returned.
\* The transport's policy field is the variable policy.
Calls == 1..NumCalls

\* The methods of the requests sent at once.
CallMethods == {"GET", "PATCH"}

\* What the inner transport answers a call with.
CallResults ==
    {[status |-> 200, err |-> Nil], [status |-> 503, err |-> Nil],
     [status |-> 0, err |-> "connection refused"]}

\* A call that has just entered RoundTrip with method m.
NewCall(m) ==
    [method |-> m, pc |-> "start", attempt |-> 0, log |-> <<>>, closed |-> {},
     waits |-> <<>>, cancelled |-> FALSE, ret |-> <<>>]

\* NextPass with one loop variable for all the calls.
NextPassShared(c) ==
    [d \in Calls |->
        IF d = c THEN [calls[d] EXCEPT !.attempt = @ + 1, !.pc = "attempt"]
        ELSE [calls[d] EXCEPT !.attempt = @ + 1]]

\* Line 231: the range loop of call c goes to its next pass; attempt is a
\* variable of the call.
NextPass(c) ==
    [calls EXCEPT ![c] = [@ EXCEPT !.attempt = @ + 1, !.pc = "attempt"]]

\* Lines 225-227 in call c.
CallDirect(c) ==
    /\ calls[c].pc = "start"
    /\ ~isRetryableMethod(policy, calls[c].method)
    /\ \E res \in CallResults :
         calls' = [calls EXCEPT ![c] =
                     [@ EXCEPT !.log = Append(@, res),
                               !.ret = Return(IF res.err = Nil THEN 1 ELSE 0, res.err),
                               !.pc = "done"]]
    /\ UNCHANGED <<pagVars, conVars, rawVars, retryVars, polVars, limVars, hookVars>>
    /\ UNCHANGED ctorVars

\* Lines 231-248 in call c.
CallAttempt(c) ==
    /\ \/ calls[c].pc = "start" /\ isRetryableMethod(policy, calls[c].method)
       \/ calls[c].pc = "attempt"
    /\ calls[c].attempt < policy.MaxAttempts
    /\ \E res \in CallResults :
         LET n == Len(calls[c].log) + 1
             v == AttemptVerdict(policy, calls[c].attempt, res)
         IN \/ /\ v = "error"
               /\ calls' = [calls EXCEPT ![c] =
                              [@ EXCEPT !.log = Append(@, res),
                                        !.ret = Return(0, res.err),
                                        !.pc = "done"]]
            \/ /\ v = "return"
               /\ calls' = [calls EXCEPT ![c] =
                              [@ EXCEPT !.log = Append(@, res),
                                        !.ret = Return(n, Nil),
                                        !.pc = "done"]]
            \/ /\ v = "retry"
               /\ \E d \in backoff(policy, calls[c].attempt) :
                     calls' = [calls EXCEPT ![c] =
                                 [@ EXCEPT !.log = Append(@, res),
                                           !.closed = @ \cup {n},
                                           !.waits = Append(@, d),
                                           !.pc = "backoff"]]
    /\ UNCHANGED <<pagVars, conVars, rawVars, retryVars, polVars, limVars, hookVars>>
    /\ UNCHANGED ctorVars

\* Lines 249-255 in call c: the select finds neither channel ready.
CallBackoffWait(c) ==
    /\ calls[c].pc = "backoff"
    /\ ~calls[c].cancelled
    /\ calls' = [calls EXCEPT ![c].pc = "waiting"]
    /\ UNCHANGED <<pagVars, conVars, rawVars, retryVars, polVars, limVars, hookVars>>
    /\ UNCHANGED ctorVars

\* case <-timer.C in call c.
CallBackoffElapsed(c) ==
    /\ calls[c].pc \in {"backoff", "waiting"}
    /\ calls' = NextPass(c)
    /\ UNCHANGED <<pagVars, conVars, rawVars, retryVars, polVars, limVars, hookVars>>
    /\ UNCHANGED ctorVars

\* case <-req.Context().Done() in call c, its context cancelled before the
\* select or while the call is blocked in it.
CallCancelled(c) ==
    /\ \/ calls[c].pc = "backoff" /\ calls[c].cancelled
       \/ calls[c].pc = "waiting" /\ ~calls[c].cancelled
    /\ calls' = [calls EXCEPT ![c] =
                   [@ EXCEPT !.cancelled = TRUE,
                             !.ret = Return(0, CtxErr),
                             !.pc = "done"]]
    /\ UNCHANGED <<pagVars, conVars, rawVars, retryVars, polVars, limVars, hookVars>>
    /\ UNCHANGED ctorVars

\* The context of call c's request is cancelled while the call runs and is
\* not blocked in the select.
CallCancelContext(c) ==
    /\ calls[c].pc \in {"start", "attempt", "backoff"}
    /\ ~calls[c].cancelled
    /\ calls' = [calls EXCEPT ![c].cancelled = TRUE]
    /\ UNCHANGED <<pagVars, conVars, rawVars, retryVars, polVars, limVars, hookVars>>
    /\ UNCHANGED ctorVars

\* The policies of the shared transport: no jitter, the default status
\* codes, every MaxAttempts up to the bound.
SharedPolicies ==
    {Defaults([MaxAttempts |-> m, InitialBackoff |-> 1, MaxBackoff |-> 3,
               Jitter |-> FALSE, RetryableStatusCodes |-> <<>>,
               RetryPOST |-> FALSE]) : m \in 1..MaxAttemptsBound}

\* ------------------------------------------------------------------------
\* defaults() and backoff() called on their own
\* ------------------------------------------------------------------------

\* How many consecutive attempts backoff is asked about.
MaxBackoffCalls == 6

\* The policies defaults() is called on: every numeric field unset,
\* negative or set, the status list nil, empty or set, both flags.
UnsetPolicies ==
    [MaxAttempts : {-1, 0, 5},
     InitialBackoff : {-1, 0, 10},
     MaxBackoff : {-1, 0, 600},
     Jitter : BOOLEAN,
     RetryableStatusCodes : {<<>>, <<<<>>>>, <<<<429>>>>},
     RetryPOST : BOOLEAN]

\* The policies of a transport built directly around a policy with both
\* durations set.
BackoffPolicies ==
    [MaxAttempts : {0},
     InitialBackoff : {1, 2, 5},
     MaxBackoff : {3, 10, 300},
     Jitter : BOOLEAN,
     RetryableStatusCodes : {<<>>},
     RetryPOST : {FALSE}]

\* p.defaults() is called on the policy.
ApplyDefaults ==
    /\ ppc = "raw"
    /\ policy' = Defaults(policy)
    /\ ppc' = "defaulted"
    /\ UNCHANGED <<rawPolicy, boAttempt, boDelay, boPrev>>
    /\ UNCHANGED <<method, rpc, attempt, respLog, closed, waits, cancelled, rret>>
    /\ UNCHANGED reqVars
    /\ UNCHANGED <<pagVars, conVars, rawVars>>
    /\ UNCHANGED <<limVars, hookVars, auxVars>>

\* rt.backoff(attempt) is called for the next attempt: 0, 1, 2, ...
BackoffCall ==
    /\ ppc = "backoff"
    /\ boAttempt < MaxBackoffCalls
    /\ \E d \in backoff(policy, boAttempt) : boDelay' = <<d>>
    /\ boPrev' = boDelay
    /\ boAttempt' = boAttempt + 1
    /\ UNCHANGED <<rawPolicy, ppc>>
    /\ UNCHANGED retryVars
    /\ UNCHANGED <<pagVars, conVars, rawVars>>
    /\ UNCHANGED <<limVars, hookVars, auxVars>>

\* ------------------------------------------------------------------------
\* rateLimitTransport
\* ------------------------------------------------------------------------

\* How many requests go through the transport, one after the other.
MaxRequests == 2

\* The contexts requests carry.
Contexts == {"ctx1", "ctx2"}

\* The errors limiter.Wait may return.
LimiterErrors == {"rate: Wait(n=1) would exceed context deadline", CtxErr}

\* The results of t.base.RoundTrip: a response (its status, 0 for nil) and
\* an error.
BaseResults ==
    {[resp |-> 200, err |-> Nil], [resp |-> 429, err |-> Nil],
     [resp |-> 0, err |-> "connection refused"]}

\* The number of the request RoundTrip is working on.
CurrentRequest == Len(lreqs)

\* LimiterWait letting the request through when Wait fails.
LimiterWaitFailsOpen ==
    /\ lpc = "start"
    /\ \E e \in {Nil} \cup LimiterErrors :
         lLog' = Append(lLog, [op |-> "Wait", req |-> CurrentRequest,
                               ctx |-> lreqs[CurrentRequest], resp |-> 0, err |-> e])
    /\ lpc' = "admitted"
    /\ UNCHANGED <<lreqs, lrets>>
    /\ UNCHANGED <<pagVars, conVars, rawVars, retryVars, polVars, hookVars, auxVars>>

\* Lines 24-26: t.limiter.Wait(req.Context()) is called; its error, if
\* any, is returned with a nil response.
LimiterWait ==
    /\ lpc = "start"
    /\ \E e \in {Nil} \cup LimiterErrors :
         /\ lLog' = Append(lLog, [op |-> "Wait", req |-> CurrentRequest,
                                  ctx |-> lreqs[CurrentRequest], resp |-> 0, err |-> e])
         /\ IF e # Nil
            THEN /\ lrets' = Append(lrets, [resp |-> 0, err |-> e])
                 /\ lpc' = "done"
            ELSE /\ lrets' = lrets
                 /\ lpc' = "admitted"
    /\ UNCHANGED lreqs
    /\ UNCHANGED <<pagVars, conVars, rawVars, retryVars, polVars, hookVars, auxVars>>

\* Line 27: return t.base.RoundTrip(req).
BaseRoundTrip ==
    /\ lpc = "admitted"
    /\ \E res \in BaseResults :
         /\ lLog' = Append(lLog, [op |-> "RoundTrip", req |-> CurrentRequest,
                                  ctx |-> lreqs[CurrentRequest],
                                  resp |-> res.resp, err |-> res.err])
         /\ lrets' = Append(lrets, res)
    /\ lpc' = "done"
    /\ UNCHANGED lreqs
    /\ UNCHANGED <<pagVars, conVars, rawVars, retryVars, polVars, hookVars, auxVars>>

\* The HTTP client hands the next request to RoundTrip.
NextRequest ==
    /\ lpc = "done"
    /\ CurrentRequest < MaxRequests
    /\ \E c \in Contexts : lreqs' = Append(lreqs, c)
    /\ lpc' = "start"
    /\ UNCHANGED <<lLog, lrets>>
    /\ UNCHANGED <<pagVars, conVars, rawVars, retryVars, polVars, hookVars, auxVars>>

\* ------------------------------------------------------------------------
\* WebhookVerifier: values and conversions
\* ------------------------------------------------------------------------

\* int64 is modelled on 24 bits: the least and the greatest value.
MinInt == -8388608
MaxInt == 8388607

\* The value an int64 computation yields for the exact result x.
Wrap(x) == ((x - MinInt) % (MaxInt - MinInt + 1)) + MinInt

\* A string is the sequence of its characters; "" is <<>>.
DigitChars == <<"0", "1", "2", "3", "4", "5", "6", "7", "8", "9">>
HexLower == DigitChars \o <<"a", "b", "c", "d", "e", "f">>
HexUpper == DigitChars \o <<"A", "B", "C", "D", "E", "F">>

IsDigit(c) == \E i \in 1..10 : DigitChars[i] = c
DigitVal(c) == (CHOOSE i \in 1..10 : DigitChars[i] = c) - 1

\* []byte(s) for the characters that occur in headers.
ByteOf(c) ==
    IF IsDigit(c) THEN 48 + DigitVal(c)
    ELSE IF c = "+" THEN 43
    ELSE IF c = "-" THEN 45
    ELSE 120

BytesOf(str) == [i \in 1..Len(str) |-> ByteOf(str[i])]

RECURSIVE DigitsValue(_)
\* The number a sequence of decimal digits denotes.
DigitsValue(ds) ==
    IF ds = <<>> THEN 0
    ELSE 10 * DigitsValue(SubSeq(ds, 1, Len(ds) - 1)) + DigitVal(ds[Len(ds)])

\* strconv.ParseInt(str, 10, 64): an optional sign and at least one decimal
\* digit, the value within the range of the type.
ParseInt(str) ==
    LET neg == str # <<>> /\ str[1] = "-"
        signed == str # <<>> /\ str[1] \in {"+", "-"}
        ds == IF signed THEN Tail(str) ELSE str
    IN IF ds = <<>> \/ \E i \in 1..Len(ds) : ~IsDigit(ds[i])
       THEN [ok |-> FALSE, val |-> 0]
       ELSE LET un == DigitsValue(ds)
            IN IF (~neg /\ un > MaxInt) \/ (neg /\ un > -MinInt)
               THEN [ok |-> FALSE, val |-> 0]
               ELSE [ok |-> TRUE, val |-> IF neg THEN -un ELSE un]

\* The value of a hexadecimal digit of either case, -1 for any other
\* character.
HexValue(c) ==
    IF \E i \in 1..16 : HexLower[i] = c
    THEN (CHOOSE i \in 1..16 : HexLower[i] = c) - 1
    ELSE IF \E i \in 1..16 : HexUpper[i] = c
    THEN (CHOOSE i \in 1..16 : HexUpper[i] = c) - 1
    ELSE -1

\* hex.DecodeString: an error for a character that is no hexadecimal digit
\* and for an odd length, else one byte for every two characters.
DecodeString(str) ==
    IF Len(str) % 2 = 1 \/ \E i \in 1..Len(str) : HexValue(str[i]) = -1
    THEN [ok |-> FALSE, bytes |-> <<>>]
    ELSE [ok |-> TRUE,
          bytes |-> [i \in 1..(Len(str) \div 2) |->
                        16 * HexValue(str[2 * i - 1]) + HexValue(str[2 * i])]]

\* hex.EncodeToString: two lower-case digits for every byte.
EncodeToString(bytes) ==
    [i \in 1..(2 * Len(bytes)) |->
        LET b == bytes[(i + 1) \div 2]
        IN IF i % 2 = 1 THEN HexLower[(b \div 16) + 1] ELSE HexLower[(b % 16) + 1]]

\* The same digits in upper case.
ToUpper(str) ==
    [i \in 1..Len(str) |->
        IF HexValue(str[i]) = -1 THEN str[i] ELSE HexUpper[HexValue(str[i]) + 1]]

\* The longest timestamp header and the longest body of a request.
MaxTimestampLen == 8
MaxBodyLen == 3

\* ed25519.SignatureSize, scaled to the messages of the model.
SignatureSize == MaxTimestampLen + MaxBodyLen + 2

\* Key pairs are numbered; the public key of pair k is k.
\* ed25519.Sign(priv, message): the signature of pair k over message, a
\* function of both and different for different keys or messages.
Sign(k, message) ==
    [i \in 1..SignatureSize |->
        IF i = 1 THEN k
        ELSE IF i = 2 THEN Len(message)
        ELSE IF i - 2 <= Len(message) THEN message[i - 2]
        ELSE 0]

\* ed25519.Verify(pub, message, sig): sig is the signature of the pair of
\* pub over message.
Ed25519Verify(pub, message, sig) ==
    /\ Len(message) <= SignatureSize - 2
    /\ sig = Sign(pub, message)

\* ------------------------------------------------------------------------
\* WebhookVerifier.Verify
\* ------------------------------------------------------------------------

\* Durations are counted in units of 100 ms: 5 * time.Minute.
DefaultMaxClockSkew == 3000
\* defaultMaxBodyBytes
DefaultMaxBodyBytes == 5242880

\* The codes of the errors Verify returns.
ErrMissingTimestamp == "ERR_MISSING_TIMESTAMP"
ErrMissingSignature == "ERR_MISSING_SIGNATURE"
ErrInvalidTimestamp == "ERR_INVALID_TIMESTAMP"
ErrTimestampExpired == "ERR_TIMESTAMP_EXPIRED"
ErrInvalidSignature == "ERR_INVALID_SIGNATURE"
ErrReadBody == "ERR_READ_BODY"
ErrBodyTooLarge == "ERR_BODY_TOO_LARGE"
ErrSignatureInvalid == "ERR_SIGNATURE_INVALID"

\* A body stream is [data, err]: the bytes it still delivers and whether it
\* then ends with a read error instead of EOF.
NoBody == [data |-> <<>>, err |-> FALSE]

\* int64(d.Seconds()) for a duration d >= 0.
SecondsOf(d) == d \div 10

\* Lines 432-439: the timestamp ts is further from now than the skew.
TimestampExpired(v, nw, ts) ==
    LET diff == Wrap(nw - ts)
        dist == IF diff < 0 THEN Wrap(-diff) ELSE diff
    IN dist > SecondsOf(v.maxClockSkew)

\* HeaderCheck with the signature's format examined before the timestamp.
HeaderCheckSignatureFirst(v, nw, t, sg) ==
    IF t = <<>> THEN ErrMissingTimestamp
    ELSE IF sg = <<>> THEN ErrMissingSignature
    ELSE IF ~DecodeString(sg).ok THEN ErrInvalidSignature
    ELSE IF Len(DecodeString(sg).bytes) # SignatureSize THEN ErrInvalidSignature
    ELSE IF ~ParseInt(t).ok THEN ErrInvalidTimestamp
    ELSE IF TimestampExpired(v, nw, ParseInt(t).val) THEN ErrTimestampExpired
    ELSE Nil

\* Lines 417-447: the checks made before the body is touched; the code of
\* the first that fails, Nil if none does.
HeaderCheck(v, nw, t, sg) ==
    IF t = <<>> THEN ErrMissingTimestamp
    ELSE IF sg = <<>> THEN ErrMissingSignature
    ELSE IF ~ParseInt(t).ok THEN ErrInvalidTimestamp
    ELSE IF TimestampExpired(v, nw, ParseInt(t).val) THEN ErrTimestampExpired
    ELSE IF ~DecodeString(sg).ok THEN ErrInvalidSignature
    ELSE IF Len(DecodeString(sg).bytes) # SignatureSize THEN ErrInvalidSignature
    ELSE Nil

\* BodyLimit without the extra byte.
BodyLimitExact(v) == v.maxBodyBytes

\* Line 449: the argument of io.LimitReader, v.maxBodyBytes+1 in int64.
BodyLimit(v) == Wrap(v.maxBodyBytes + 1)

\* Lines 449-450: io.ReadAll(io.LimitReader(b, n)).  A limit n <= 0 reads
\* nothing; the end of the stream is seen only if it comes before n bytes.
\* The result is the bytes read, whether the read failed, and the stream
\* as it is left.
ReadAll(b, n) ==
    IF n <= 0
    THEN [data |-> <<>>, failed |-> FALSE, rest |-> b]
    ELSE IF Len(b.data) >= n
    THEN [data |-> SubSeq(b.data, 1, n), failed |-> FALSE,
          rest |-> [data |-> SubSeq(b.data, n + 1, Len(b.data)), err |-> b.err]]
    ELSE [data |-> b.data, failed |-> b.err,
          rest |-> [data |-> <<>>, err |-> b.err]]

\* Lines 459-467: some configured key verifies sig over timestamp || body.
AnyKeyVerifies(v, t, body, sig) ==
    \E i \in 1..Len(v.publicKeys) :
        Ed25519Verify(v.publicKeys[i], BytesOf(t) \o body, sig)

\* Lines 416-468: Verify gives [err, body, read]: the error it returns, the
\* stream r.Body is afterwards, and how many bytes it read.
VerifyRequest(v, nw, t, sg, b) ==
    LET h == HeaderCheck(v, nw, t, sg)
        rd == ReadAll(b, BodyLimit(v))
        n == Len(rd.data)
    IN IF h # Nil THEN [err |-> h, body |-> b, read |-> 0]
       ELSE IF rd.failed THEN [err |-> ErrReadBody, body |-> rd.rest, read |-> n]
       ELSE IF n > v.maxBodyBytes
       THEN [err |-> ErrBodyTooLarge, body |-> rd.rest, read |-> n]
       ELSE [err |-> IF AnyKeyVerifies(v, t, rd.data, DecodeString(sg).bytes)
                     THEN Nil ELSE ErrSignatureInvalid,
             body |-> [data |-> rd.data, err |-> FALSE],
             read |-> n]

\* v.Verify(r) is called.
Verify ==
    /\ vpc = "request"
    /\ LET o == VerifyRequest(verifier, now, tsHeader, sigHeader, rBody)
       IN /\ verr' = <<o.err>>
          /\ rBody' = o.body
          /\ bytesRead' = o.read
    /\ vpc' = "verified"
    /\ UNCHANGED <<verifier, now, tsHeader, sigHeader, origBody, downstream>>
    /\ UNCHANGED <<mwResp, nextLog>>
    /\ UNCHANGED <<pagVars, conVars, rawVars, retryVars, polVars, limVars, auxVars>>

\* After Verify has returned, io.ReadAll(r.Body) is called.
DownstreamRead ==
    /\ vpc = "verified"
    /\ downstream' = <<[data |-> rBody.data, err |-> rBody.err]>>
    /\ rBody' = [data |-> <<>>, err |-> rBody.err]
    /\ vpc' = "read"
    /\ UNCHANGED <<verifier, now, tsHeader, sigHeader, origBody, verr, bytesRead>>
    /\ UNCHANGED <<mwResp, nextLog>>
    /\ UNCHANGED <<pagVars, conVars, rawVars, retryVars, polVars, limVars, auxVars>>

\* The text of each error Verify returns (its Message field); a signature
\* header sg is refused with one of two texts.
MessageOf(code, sg) ==
    CASE code = ErrMissingTimestamp -> "missing X-Signature-Timestamp header"
      [] code = ErrMissingSignature -> "missing X-Signature-Ed25519 header"
      [] code = ErrInvalidTimestamp -> "invalid timestamp format"
      [] code = ErrTimestampExpired -> "timestamp outside valid range"
      [] code = ErrInvalidSignature ->
            IF ~DecodeString(sg).ok THEN "invalid signature hex encoding"
            ELSE "invalid signature length"
      [] code = ErrReadBody -> "failed to read request body"
      [] code = ErrBodyTooLarge -> "request body exceeds maximum allowed size"
      [] code = ErrSignatureInvalid -> "signature verification failed"

\* (*Error).Error() for an error with a Message: the pieces of
\* "xbow: %s (status=%d, code=%s)"; Verify's errors have StatusCode 0.
ErrorText(message, statusCode, code) ==
    <<"xbow: ", message, " (status=", statusCode, ", code=", code, ")">>

\* http.StatusUnauthorized and http.StatusOK.
StatusUnauthorized == 401
StatusOK == 200

\* http.Error(w, text, status): the status, and the text followed by a
\* newline as the body.
HttpError(text, status) == [status |-> status, body |-> text \o <<"\n">>]

\* Lines 404-412: the handler Middleware(next) returns serves a request.
\* It calls Verify; on an error it answers with http.Error and returns,
\* otherwise it calls next.ServeHTTP(w, r).  next reads r.Body to its end
\* and answers 200.
Middleware ==
    /\ vpc = "request"
    /\ LET o == VerifyRequest(verifier, now, tsHeader, sigHeader, rBody)
       IN /\ verr' = <<o.err>>
          /\ bytesRead' = o.read
          /\ IF o.err # Nil
             THEN /\ mwResp' = <<HttpError(ErrorText(MessageOf(o.err, sigHeader), 0, o.err),
                                           StatusUnauthorized)>>
                  /\ nextLog' = nextLog
                  /\ rBody' = o.body
             ELSE /\ mwResp' = <<[status |-> StatusOK, body |-> <<>>]>>
                  /\ nextLog' = Append(nextLog, [data |-> o.body.data, err |-> o.body.err])
                  /\ rBody' = [data |-> <<>>, err |-> o.body.err]
    /\ vpc' = "served"
    /\ UNCHANGED <<verifier, now, tsHeader, sigHeader, origBody, downstream>>
    /\ UNCHANGED <<pagVars, conVars, rawVars, retryVars, polVars, limVars, auxVars>>

\* The verifiers: one or two keys, a skew of 1.5 s or the default, a body
\* limit of 2 bytes, the default, or the greatest int64.
Verifiers ==
    [publicKeys : {<<1>>, <<1, 2>>},
     maxClockSkew : {15, DefaultMaxClockSkew},
     maxBodyBytes : {2, DefaultMaxBodyBytes, MaxInt}]

\* The values of time.Now().Unix().
Nows == {1000}

\* The timestamp headers: absent, not a number, at and around now, at and
\* beyond either skew, beyond the range of the type, and at the distance
\* from now that the type cannot hold.
TimestampHeaders ==
    {<<>>, <<"1", "x">>,
     <<"1", "0", "0", "0">>, <<"9", "9", "9">>, <<"+", "1", "0", "0", "1">>,
     <<"9", "9", "8">>, <<"1", "0", "0", "2">>,
     <<"7", "0", "0">>, <<"6", "9", "9">>,
     <<"1", "3", "0", "0">>, <<"1", "3", "0", "1">>,
     <<"9", "9", "9", "9", "9", "9", "9", "9">>,
     <<"-", "8", "3", "8", "7", "6", "0", "7">>,
     <<"-", "8", "3", "8", "7", "6", "0", "8">>}

\* The bytes of a body of n bytes.
BodyData(n) == [i \in 1..n |-> IF i % 2 = 1 THEN 123 ELSE 125]

\* The body streams: up to MaxBodyLen bytes, ending well or with an error.
Bodies == [data : {BodyData(n) : n \in 0..MaxBodyLen}, err : BOOLEAN]

\* The key pairs that sign requests; pair 3 is unknown to every verifier.
SignerKeys == {1, 2, 3}

\* A body different from body.
OtherBody(body) == body \o <<33>>

\* The signature headers of a request with timestamp header t and body
\* body: absent, not hexadecimal, of odd length, too short, all zero, the
\* sender's signature by each key pair, the same in upper case, a
\* signature over a different body, and a signature over the timestamp
\* alone.
SigHeadersFor(t, body) ==
    {<<>>, <<"z", "z">>, <<"a", "b", "c">>, <<"a", "b">>,
     EncodeToString([i \in 1..SignatureSize |-> 0]),
     ToUpper(EncodeToString(Sign(1, BytesOf(t) \o body))),
     EncodeToString(Sign(1, BytesOf(t) \o OtherBody(body))),
     EncodeToString(Sign(1, BytesOf(t)))}
        \cup {EncodeToString(Sign(k, BytesOf(t) \o body)) : k \in SignerKeys}

\* ------------------------------------------------------------------------
\* NewWebhookVerifier
\* ------------------------------------------------------------------------

ErrNoKeys == "ERR_NO_KEYS"
ErrInvalidKey == "ERR_INVALID_KEY"

\* A PublicKey string is described by what each decoding step finds in it:
\* whether the text is base64, whether the bytes it decodes to are an SPKI
\* structure, the algorithm of the key in the structure and the key pair
\* the key belongs to.
KeyString(text, der, alg, k) == [text |-> text, der |-> der, alg |-> alg, key |-> k]

\* base64.StdEncoding.EncodeToString(x509.MarshalPKIXPublicKey(pub)) for the
\* Ed25519 public key of pair k.
EncodeKey(k) == KeyString("base64", "spki", "ed25519", k)

\* base64.StdEncoding.DecodeString: [ok, der].
Base64Decode(s) ==
    [ok |-> s.text = "base64", der |-> [form |-> s.der, alg |-> s.alg, key |-> s.key]]

\* x509.ParsePKIXPublicKey: [ok, pub].
ParsePKIXPublicKey(der) ==
    [ok |-> der.form = "spki", pub |-> [alg |-> der.alg, key |-> der.key]]

\* Lines 382-399: parsePublicKey gives [pub, err].
parsePublicKey(b64) ==
    LET d == Base64Decode(b64)
        p == ParsePKIXPublicKey(d.der)
    IN IF ~d.ok THEN [pub |-> 0, err |-> ErrInvalidKey]
       ELSE IF ~p.ok THEN [pub |-> 0, err |-> ErrInvalidKey]
       ELSE IF p.pub.alg # "ed25519" THEN [pub |-> 0, err |-> ErrInvalidKey]
       ELSE [pub |-> p.pub.key, err |-> Nil]

\* Lines 327-339: an option is the field it sets and the value it sets.
WithMaxClockSkew(d) == [field |-> "maxClockSkew", value |-> d]
WithMaxBodyBytes(n) == [field |-> "maxBodyBytes", value |-> n]

\* opt(v)
ApplyOption(opt, v) ==
    IF opt.field = "maxClockSkew"
    THEN [v EXCEPT !.maxClockSkew = opt.value]
    ELSE [v EXCEPT !.maxBodyBytes = opt.value]

\* Lines 366-368: the options from the i-th on applied to v in order.
RECURSIVE ApplyOptions(_, _, _)
ApplyOptions(opts_, i, v) ==
    IF i > Len(opts_) THEN v
    ELSE ApplyOptions(opts_, i + 1, ApplyOption(opts_[i], v))

\* ParseKeys that leaves out a key it cannot parse.
RECURSIVE ParseKeysSkipping(_, _, _)
ParseKeysSkipping(keys, i, v) ==
    IF i > Len(keys) THEN [v |-> <<v>>, err |-> Nil]
    ELSE LET r == parsePublicKey(keys[i])
         IN IF r.err # Nil THEN ParseKeysSkipping(keys, i + 1, v)
            ELSE ParseKeysSkipping(keys, i + 1,
                     [v EXCEPT !.publicKeys = Append(@, r.pub)])

\* Lines 370-378: the keys from the i-th on are parsed and appended to
\* v.publicKeys; the first that fails ends the construction.
RECURSIVE ParseKeys(_, _, _)
ParseKeys(keys, i, v) ==
    IF i > Len(keys) THEN [v |-> <<v>>, err |-> Nil]
    ELSE LET r == parsePublicKey(keys[i])
         IN IF r.err # Nil THEN [v |-> <<>>, err |-> r.err]
            ELSE ParseKeys(keys, i + 1, [v EXCEPT !.publicKeys = Append(@, r.pub)])

\* Lines 355-379: NewWebhookVerifier gives [v, err], v being <<>> for nil.
NewWebhookVerifier(keys, opts_) ==
    IF Len(keys) = 0 THEN [v |-> <<>>, err |-> ErrNoKeys]
    ELSE ParseKeys(keys, 1,
             ApplyOptions(opts_, 1,
                 [publicKeys |-> <<>>,
                  maxClockSkew |-> DefaultMaxClockSkew,
                  maxBodyBytes |-> DefaultMaxBodyBytes]))

\* NewWebhookVerifier(keys, opts...) is called.
Construct ==
    /\ cpc = "call"
    /\ ctorRet' = <<NewWebhookVerifier(ctorKeys, ctorOpts)>>
    /\ cpc' = "done"
    /\ UNCHANGED <<ctorKeys, ctorOpts>>
    /\ UNCHANGED <<pagVars, conVars, rawVars, retryVars, polVars, limVars, hookVars>>
    /\ UNCHANGED concVars

\* The key strings: the keys of pairs 1 and 2, a text that is not base64,
\* base64 of bytes that are no SPKI structure, and an RSA key.
KeyStrings ==
    {EncodeKey(1), EncodeKey(2),
     KeyString("not-valid-base64!!!", "none", "none", 0),
     KeyString("base64", "not-spki", "none", 0),
     KeyString("base64", "spki", "rsa", 3)}

\* The options: a skew of 10 minutes or 1.5 s, a limit of 1 KiB or 2 bytes.
Options ==
    {WithMaxClockSkew(6000), WithMaxClockSkew(15),
     WithMaxBodyBytes(1024), WithMaxBodyBytes(2)}

\* ------------------------------------------------------------------------
\* Specifications
\* ------------------------------------------------------------------------

ConInit ==
    /\ yielded = <<>>
    /\ stopped = FALSE
    /\ items = <<>>
    /\ ret = <<>>

PagIdle ==
    /\ opts = <<>>
    /\ consumer = "collect"
    /\ pc = "idle"
    /\ cursor = ""
    /\ limit = 0
    /\ page = <<>>
    /\ idx = 1
    /\ fetchLog = <<>>
    /\ pageLog = <<>>

RawIdle ==
    /\ rawSeq = <<>>
    /\ rawPos = 0

RetryIdle ==
    /\ policy = Defaults([MaxAttempts |-> 0, InitialBackoff |-> 0, MaxBackoff |-> 0,
                          Jitter |-> FALSE, RetryableStatusCodes |-> <<>>,
                          RetryPOST |-> FALSE])
    /\ method = "GET"
    /\ rpc = "idle"
    /\ attempt = 0
    /\ respLog = <<>>
    /\ closed = {}
    /\ closes = 0
    /\ reqBody = <<>>
    /\ sent = <<>>
    /\ waits = <<>>
    /\ cancelled = FALSE
    /\ rret = <<>>

PolIdle ==
    /\ rawPolicy = <<>>
    /\ ppc = "idle"
    /\ boAttempt = 0
    /\ boDelay = <<>>
    /\ boPrev = <<>>

LimIdle ==
    /\ lpc = "idle"
    /\ lreqs = <<>>
    /\ lLog = <<>>
    /\ lrets = <<>>

HookIdle ==
    /\ verifier = [publicKeys |-> <<1>>, maxClockSkew |-> DefaultMaxClockSkew,
                   maxBodyBytes |-> DefaultMaxBodyBytes]
    /\ now = 0
    /\ tsHeader = <<>>
    /\ sigHeader = <<>>
    /\ origBody = NoBody
    /\ rBody = NoBody
    /\ vpc = "idle"
    /\ verr = <<>>
    /\ bytesRead = 0
    /\ downstream = <<>>
    /\ mwResp = <<>>
    /\ nextLog = <<>>

CtorIdle ==
    /\ ctorKeys = <<>>
    /\ ctorOpts = <<>>
    /\ ctorRet = <<>>
    /\ cpc = "idle"

ConcIdle == calls = <<>>

AuxIdle ==
    /\ CtorIdle
    /\ ConcIdle

RestIdle ==
    /\ PolIdle
    /\ LimIdle
    /\ AuxIdle
    /\ HookIdle

\* paginate(ctx, opts, fetch) has returned the sequence function and a
\* consumer is about to range over it.
Init ==
    /\ opts \in OptsValues
    /\ consumer \in Consumers
    /\ pc = "start"
    /\ cursor = ""
    /\ limit = 0
    /\ page = <<>>
    /\ idx = 1
    /\ fetchLog = <<>>
    /\ pageLog = <<>>
    /\ ConInit
    /\ RawIdle
    /\ RetryIdle
    /\ RestIdle

Next == Start \/ FetchPage \/ FetchError \/ YieldItem \/ PageDone

Spec == Init /\ [][Next]_vars

\* The same iteration when it is left to run: paginate is one loop in one
\* goroutine and the consumer returns from every yield, so a step that
\* stays possible is taken.
SpecProgress == Init /\ [][Next]_vars /\ WF_vars(Next)

\* The iterator of a resource: every page comes from a page conversion.
NextResource == Start \/ FetchResource \/ FetchError \/ YieldItem \/ PageDone

SpecResource == Init /\ [][NextResource]_vars

\* Collect(seq) is called on a sequence of at most MaxRaw pairs.
InitCollect ==
    /\ PagIdle
    /\ ConInit
    /\ rawSeq \in SeqsUpTo(RawPairs, MaxRaw)
    /\ rawPos = 0
    /\ RetryIdle
    /\ RestIdle

NextCollect == RawYield \/ RawEnd

SpecCollect == InitCollect /\ [][NextCollect]_vars

\* newRetryTransport(base, policy) has built the transport and RoundTrip
\* is called with a request.
InitRetry ==
    /\ PagIdle
    /\ ConInit
    /\ RawIdle
    /\ \E raw \in RawPolicies : policy = Defaults(raw)
    /\ method \in Methods
    /\ rpc = "start"
    /\ attempt = 0
    /\ respLog = <<>>
    /\ closed = {}
    /\ closes = 0
    /\ reqBody = <<>>
    /\ sent = <<>>
    /\ waits = <<>>
    /\ cancelled = FALSE
    /\ rret = <<>>
    /\ RestIdle

NextRetry ==
    \/ RoundTripDirect
    \/ Attempt
    \/ BackoffWait
    \/ BackoffElapsed
    \/ BackoffCancelled
    \/ WaitCancelled
    \/ CancelContext

SpecRetry == InitRetry /\ [][NextRetry]_vars

\* RoundTrip is called on a request that may carry a body, under a policy
\* without jitter.
InitRetryBody ==
    /\ PagIdle
    /\ ConInit
    /\ RawIdle
    /\ \E raw \in RawPolicies :
          /\ ~raw.Jitter
          /\ raw.InitialBackoff = 0
          /\ raw.MaxBackoff = 0
          /\ policy = Defaults(raw)
    /\ method \in Methods
    /\ rpc = "start"
    /\ attempt = 0
    /\ respLog = <<>>
    /\ closed = {}
    /\ closes = 0
    /\ reqBody \in RequestBodies
    /\ sent = <<>>
    /\ waits = <<>>
    /\ cancelled = FALSE
    /\ rret = <<>>
    /\ RestIdle

SpecRetryBody == InitRetryBody /\ [][NextRetry]_vars

\* NumCalls requests have been handed to RoundTrip of one retryTransport.
InitConcurrent ==
    /\ PagIdle
    /\ ConInit
    /\ RawIdle
    /\ policy \in SharedPolicies
    /\ method = "GET"
    /\ rpc = "idle"
    /\ attempt = 0
    /\ respLog = <<>>
    /\ closed = {}
    /\ closes = 0
    /\ reqBody = <<>>
    /\ sent = <<>>
    /\ waits = <<>>
    /\ cancelled = FALSE
    /\ rret = <<>>
    /\ PolIdle
    /\ LimIdle
    /\ HookIdle
    /\ CtorIdle
    /\ calls \in [Calls -> {NewCall(m) : m \in CallMethods}]

NextConcurrent ==
    \E c \in Calls :
        \/ CallDirect(c)
        \/ CallAttempt(c)
        \/ CallBackoffWait(c)
        \/ CallBackoffElapsed(c)
        \/ CallCancelled(c)
        \/ CallCancelContext(c)

SpecConcurrent == InitConcurrent /\ [][NextConcurrent]_vars

\* A RetryPolicy literal is about to get its defaults.
InitDefaults ==
    /\ PagIdle
    /\ ConInit
    /\ RawIdle
    /\ rawPolicy \in UnsetPolicies
    /\ policy = rawPolicy
    /\ method = "GET"
    /\ rpc = "idle"
    /\ attempt = 0
    /\ respLog = <<>>
    /\ closed = {}
    /\ closes = 0
    /\ reqBody = <<>>
    /\ sent = <<>>
    /\ waits = <<>>
    /\ cancelled = FALSE
    /\ rret = <<>>
    /\ ppc = "raw"
    /\ boAttempt = 0
    /\ boDelay = <<>>
    /\ boPrev = <<>>
    /\ LimIdle
    /\ AuxIdle
    /\ HookIdle

NextDefaults == ApplyDefaults

SpecDefaults == InitDefaults /\ [][NextDefaults]_vars

\* A retryTransport has been built around a policy and backoff is called
\* for attempt 0, 1, 2, ... in turn.
InitBackoff ==
    /\ PagIdle
    /\ ConInit
    /\ RawIdle
    /\ rawPolicy \in BackoffPolicies
    /\ policy = rawPolicy
    /\ method = "GET"
    /\ rpc = "idle"
    /\ attempt = 0
    /\ respLog = <<>>
    /\ closed = {}
    /\ closes = 0
    /\ reqBody = <<>>
    /\ sent = <<>>
    /\ waits = <<>>
    /\ cancelled = FALSE
    /\ rret = <<>>
    /\ ppc = "backoff"
    /\ boAttempt = 0
    /\ boDelay = <<>>
    /\ boPrev = <<>>
    /\ LimIdle
    /\ AuxIdle
    /\ HookIdle

NextBackoff == BackoffCall

SpecBackoff == InitBackoff /\ [][NextBackoff]_vars

\* NewClient has wrapped the transport in a rateLimitTransport and the
\* first request is handed to RoundTrip.
InitRateLimit ==
    /\ PagIdle
    /\ ConInit
    /\ RawIdle
    /\ RetryIdle
    /\ PolIdle
    /\ AuxIdle
    /\ lpc = "start"
    /\ lreqs \in {<<c>> : c \in Contexts}
    /\ lLog = <<>>
    /\ lrets = <<>>
    /\ HookIdle

NextRateLimit == LimiterWait \/ BaseRoundTrip \/ NextRequest

SpecRateLimit == InitRateLimit /\ [][NextRateLimit]_vars

\* A request has arrived and Verify is called on it.
InitVerify ==
    /\ PagIdle
    /\ ConInit
    /\ RawIdle
    /\ RetryIdle
    /\ PolIdle
    /\ LimIdle
    /\ AuxIdle
    /\ verifier \in Verifiers
    /\ now \in Nows
    /\ tsHeader \in TimestampHeaders
    /\ origBody \in Bodies
    /\ sigHeader \in SigHeadersFor(tsHeader, origBody.data)
    /\ rBody = origBody
    /\ vpc = "request"
    /\ verr = <<>>
    /\ bytesRead = 0
    /\ downstream = <<>>
    /\ mwResp = <<>>
    /\ nextLog = <<>>

NextVerify == Verify \/ DownstreamRead \/ Middleware

SpecVerify == InitVerify /\ [][NextVerify]_vars

\* NewWebhookVerifier is about to be called with some keys and options.
InitConstruct ==
    /\ PagIdle
    /\ ConInit
    /\ RawIdle
    /\ RetryIdle
    /\ PolIdle
    /\ LimIdle
    /\ HookIdle
    /\ ctorKeys \in SeqsUpTo(KeyStrings, MaxKeys)
    /\ ctorOpts \in SeqsUpTo(Options, MaxOpts)
    /\ ctorRet = <<>>
    /\ cpc = "call"
    /\ ConcIdle

NextConstruct == Construct

SpecConstruct == InitConstruct /\ [][NextConstruct]_vars

\* ------------------------------------------------------------------------
\* Properties of paginate
\* ------------------------------------------------------------------------

\* The items of the n-th answer of the server (none when it was an error).
ItemsOfAnswer(n) ==
    IF pageLog[n].page = <<>> THEN <<>> ELSE pageLog[n].page[1].Items

RECURSIVE ItemsOfAnswers(_)
\* The items of the first n answers, page after page.
ItemsOfAnswers(n) ==
    IF n = 0 THEN <<>> ELSE ItemsOfAnswers(n - 1) \o ItemsOfAnswer(n)

\* The pairs yield receives for the items its.
AsPairs(its) == [i \in 1..Len(its) |-> [item |-> its[i], err |-> Nil]]

\* The n-th answer is a page.
IsPage(n) == pageLog[n].err = Nil

\* The PageInfo of the n-th answer, a page.
InfoOf(n) == pageLog[n].page[1].PageInfo

\* The n-th answer is a page that says more pages follow and names a usable
\* cursor: present, non-empty and different from the one it was fetched with.
GoodMore(n) ==
    /\ IsPage(n)
    /\ InfoOf(n).HasMore
    /\ InfoOf(n).NextCursor # <<>>
    /\ InfoOf(n).NextCursor[1] # ""
    /\ InfoOf(n).NextCursor[1] # fetchLog[n].After

\* The n-th answer is a page that says more pages follow without a usable
\* cursor.
BadMore(n) ==
    /\ IsPage(n)
    /\ InfoOf(n).HasMore
    /\ \/ InfoOf(n).NextCursor = <<>>
       \/ InfoOf(n).NextCursor[1] = ""
       \/ InfoOf(n).NextCursor[1] = fetchLog[n].After

\* The n-th answer is a page that says it is the last one.
LastPage(n) == IsPage(n) /\ ~InfoOf(n).HasMore

\* The consumer ended the iteration itself: yield returned false for an
\* item.
ConsumerBroke ==
    stopped /\ yielded # <<>> /\ yielded[Len(yielded)].err = Nil

\* The error pairs among the yielded ones.
ErrorPairs == {i \in 1..Len(yielded) : yielded[i].err # Nil}

\* The answers so far are a well-formed sequence of pages: all but the last
\* announce a usable cursor and the last one ends the listing.
WellFormedPages ==
    /\ pageLog # <<>>
    /\ \A n \in 1..(Len(pageLog) - 1) : GoodMore(n)
    /\ LastPage(Len(pageLog))

\* C1: over a well-formed finite sequence of pages, iterating to completion
\* yields exactly the concatenation of the pages' items, page after page,
\* and no error; paginate fetches once per page: it neither ends before the
\* last page nor fetches after it.
C1_Concatenation ==
    /\ (pc = "done" /\ ~ConsumerBroke /\ WellFormedPages) =>
          /\ yielded = AsPairs(ItemsOfAnswers(Len(pageLog)))
          /\ items = ItemsOfAnswers(Len(pageLog))
          /\ ErrorPairs = {}
          /\ Len(fetchLog) = Len(pageLog)
          /\ (consumer = "collect" =>
                ret = <<[items |-> ItemsOfAnswers(Len(pageLog)), err |-> Nil]>>)
    /\ WellFormedPages => pc \in {"items", "done"}
    /\ (pageLog # <<>> /\ \A n \in 1..Len(pageLog) : GoodMore(n)) =>
          (pc = "done" => ConsumerBroke)

\* C1 witness: a completed iteration over three well-formed pages, one of
\* them empty.
C1_Witness ==
    /\ pc = "done"
    /\ ~ConsumerBroke
    /\ WellFormedPages
    /\ Len(pageLog) = 3
    /\ \E n \in 1..3 : ItemsOfAnswer(n) = <<>>
    /\ Len(yielded) >= 3

\* C2: the first fetch is passed the caller's After (empty when opts is nil)
\* and fetch call n+1 is passed the next_cursor of page n.
C2_CursorThreading ==
    /\ fetchLog # <<>> =>
          fetchLog[1].After = (IF opts = <<>> THEN "" ELSE opts[1].After)
    /\ \A n \in 1..(Len(fetchLog) - 1) :
          /\ IsPage(n)
          /\ InfoOf(n).NextCursor # <<>>
          /\ fetchLog[n + 1].After = InfoOf(n).NextCursor[1]

\* C2 witness: three fetch calls after a caller-supplied cursor.
C2_Witness ==
    /\ opts # <<>>
    /\ opts[1].After = "c1"
    /\ Len(fetchLog) = 3
    /\ fetchLog[2].After # fetchLog[3].After

\* The protocol error paginate reports for the n-th answer, a page that
\* announces more pages without a usable cursor.
ProtocolError(n) ==
    IF InfoOf(n).NextCursor = <<>> \/ InfoOf(n).NextCursor[1] = ""
    THEN ErrNoCursor
    ELSE ErrSameCursor

\* C3: a page with has_more and a nil, empty or non-advancing next_cursor is
\* the last one fetched; unless the consumer breaks off, all its items are
\* yielded, then exactly one error: the no-cursor error for a nil or empty
\* cursor, the same-cursor error otherwise.
C3_ProtocolGuard ==
    \A n \in 1..Len(pageLog) :
       BadMore(n) =>
          /\ n = Len(pageLog)
          /\ pc \in {"items", "done"}
          /\ (pc = "done" /\ ~ConsumerBroke) =>
                /\ yielded = Append(AsPairs(ItemsOfAnswers(n)),
                                    [item |-> Zero, err |-> ProtocolError(n)])
                /\ Cardinality(ErrorPairs) = 1
                /\ stopped

\* C3 witness: the second page repeats the cursor it was fetched with and
\* the iteration has ended with the same-cursor error after its items.
C3_Witness ==
    /\ pc = "done"
    /\ Len(pageLog) = 2
    /\ BadMore(2)
    /\ InfoOf(2).NextCursor = <<fetchLog[2].After>>
    /\ Len(ItemsOfAnswer(2)) = 2
    /\ yielded[Len(yielded)].err = ErrSameCursor

\* Every answer so far is a page of exactly P items.
PagesOfSize(P) ==
    \A n \in 1..Len(pageLog) : IsPage(n) /\ Len(ItemsOfAnswer(n)) = P

\* C4: when every page holds P >= 1 items and the consumer stops at its K-th
\* item, exactly ceil(K / P) fetch calls have been made and paginate has
\* returned, so that none follows.
C4_NoPrefetch ==
    /\ ConsumerBroke => pc = "done"
    /\ \A P \in 1..MaxPageLen :
          (ConsumerBroke /\ PagesOfSize(P)) =>
              Len(fetchLog) = (Len(items) + P - 1) \div P

\* C4 witness: the consumer stopped at the last item of the second page,
\* which announces a further page.
C4_Witness ==
    /\ ConsumerBroke
    /\ PagesOfSize(2)
    /\ Len(items) = 4
    /\ GoodMore(Len(pageLog))

\* C5: a failed fetch is the last one; its error is yielded once, after
\* exactly the items of the pages before it, and paginate has returned.
C5_FetchError ==
    \A n \in 1..Len(pageLog) :
       ~IsPage(n) =>
          /\ n = Len(pageLog)
          /\ pc = "done"
          /\ yielded = Append(AsPairs(ItemsOfAnswers(n - 1)),
                              [item |-> Zero, err |-> pageLog[n].err])
          /\ items = ItemsOfAnswers(n - 1)
          /\ (consumer = "collect" =>
                ret = <<[items |-> ItemsOfAnswers(n - 1), err |-> pageLog[n].err]>>)

\* C5 witness: the third fetch failed with the context's error after two
\* pages with items.
C5_Witness ==
    /\ Len(pageLog) = 3
    /\ pageLog[3].err = "context canceled"
    /\ Len(yielded) >= 3
    /\ pc = "done"

\* Every answer so far is a page that says more pages follow.
AlwaysMore ==
    /\ pageLog # <<>>
    /\ \A n \in 1..Len(pageLog) : IsPage(n) /\ InfoOf(n).HasMore

\* C28 as stated: against a server that always answers has_more = true
\* with cursors from a finite set, and a consumer that never stops early,
\* paginate ends with a protocol error after finitely many fetch calls.
\* paginate carries nothing from one fetch to the next but the cursor, so
\* the iteration is bound to end exactly if it never sends a cursor it has
\* sent before: a cursor sent twice can be sent for ever.
C28_EndsOnRepeatedCursor ==
    (AlwaysMore /\ ~ConsumerBroke) =>
        \A i \in 1..Len(fetchLog) : \A j \in (i + 1)..Len(fetchLog) :
            fetchLog[i].After # fetchLog[j].After

\* Against that server and consumer, paginate is at its end only at a page
\* whose cursor is nil, empty or the cursor just sent, and every page
\* before the last had a usable cursor.
C28_EndsAtImmediateRepeat ==
    (AlwaysMore /\ ~ConsumerBroke) =>
        /\ \A n \in 1..(Len(pageLog) - 1) : GoodMore(n)
        /\ pc = "done" =>
              /\ BadMore(Len(pageLog))
              /\ yielded # <<>>
              /\ yielded[Len(yielded)] =
                    [item |-> Zero, err |-> ProtocolError(Len(pageLog))]
        /\ GoodMore(Len(pageLog)) => pc \in {"items", "fetch"}

\* C28 amended: against such a server and consumer, paginate ends, with a
\* protocol error, at the first page whose cursor is nil, empty or equal to
\* the cursor that page was fetched with, and at no other page; a cursor
\* is compared only with the one just sent, so a server that alternates
\* between two cursors is fetched again and again. Left to run, paginate
\* does reach its end once such a page has arrived.
C28_EndsOnImmediateRepeat ==
    /\ []C28_EndsAtImmediateRepeat
    /\ (AlwaysMore /\ ~ConsumerBroke /\ BadMore(Len(pageLog))) ~> (pc = "done")

\* The server alternates between c1 and c2: the third fetch sends the
\* cursor of the first again, is answered with c2 again, and paginate is
\* about to fetch a fourth time.
C28_Witness ==
    /\ AlwaysMore
    /\ Len(fetchLog) = 3
    /\ fetchLog[1].After = "c1"
    /\ fetchLog[2].After = "c2"
    /\ fetchLog[3].After = "c1"
    /\ InfoOf(3).NextCursor = <<"c2">>
    /\ pc = "fetch"
    /\ cursor = "c2"
    /\ ErrorPairs = {}

\* C29: in every iteration of paginate at most one pair with a non-nil
\* error is yielded and it is the last pair yielded; once yield has
\* returned false, yield is not called again and fetch is not called
\* again; and no two consecutive fetch calls use the same cursor.
C29_YieldDiscipline ==
    /\ [](/\ Cardinality(ErrorPairs) <= 1
          /\ \A i \in ErrorPairs : i = Len(yielded)
          /\ \A n \in 1..(Len(fetchLog) - 1) :
                fetchLog[n].After # fetchLog[n + 1].After)
    /\ [][stopped => (yielded' = yielded /\ fetchLog' = fetchLog /\ stopped')]_vars

\* The consumer stopped at the first item of the second page: an item of
\* that page is left, the page announces a further one, and paginate has
\* returned.
C29_Witness ==
    /\ ConsumerBroke
    /\ pc = "done"
    /\ Len(fetchLog) = 2
    /\ Len(page[1].Items) = 2
    /\ idx = 2
    /\ GoodMore(2)

\* C24: every page a resource's page conversion builds has has_more true
\* exactly if its next_cursor is present and not the empty string, so a nil
\* and an empty cursor both give has_more false; hence an iterator fed by
\* these conversions never yields the "more pages but no cursor" error.
C24_HasMoreIffCursor ==
    /\ \A n \in 1..Len(pageLog) :
          IsPage(n) =>
              (InfoOf(n).HasMore <=>
                  (InfoOf(n).NextCursor # <<>> /\ InfoOf(n).NextCursor[1] # ""))
    /\ \A i \in 1..Len(yielded) : yielded[i].err # ErrNoCursor

\* A first page of two items with an empty-string cursor ends the listing
\* without an error.
C24_Witness ==
    /\ pc = "done"
    /\ Len(pageLog) = 1
    /\ IsPage(1)
    /\ InfoOf(1).NextCursor = <<"">>
    /\ ~InfoOf(1).HasMore
    /\ Len(yielded) = 2
    /\ ErrorPairs = {}

\* ------------------------------------------------------------------------
\* Properties of Collect
\* ------------------------------------------------------------------------

\* The positions of the error pairs of the sequence handed to Collect.
RawErrors == {i \in 1..Len(rawSeq) : rawSeq[i].err # Nil}

\* The position of its first error pair, 0 when it has none.
FirstRawError ==
    IF RawErrors = {} THEN 0
    ELSE CHOOSE i \in RawErrors : \A j \in RawErrors : i <= j

\* The items of the first n pairs of the sequence.
RawItems(n) == [i \in 1..n |-> rawSeq[i].item]

\* C6: Collect returns the items yielded before the first error together
\* with that error, having consumed the sequence up to that pair and no
\* further; without an error it returns all items and a nil error.
C6_CollectPartial ==
    /\ ret # <<>> =>
          IF FirstRawError = 0
          THEN /\ ret = <<[items |-> RawItems(Len(rawSeq)), err |-> Nil]>>
               /\ rawPos = Len(rawSeq)
          ELSE /\ ret = <<[items |-> RawItems(FirstRawError - 1),
                           err |-> rawSeq[FirstRawError].err]>>
               /\ rawPos = FirstRawError
               /\ stopped
    /\ rawPos <= (IF FirstRawError = 0 THEN Len(rawSeq) ELSE FirstRawError)

\* C6 witness: Collect returned two items and an error while the sequence
\* had a further pair to yield.
C6_Witness ==
    /\ ret # <<>>
    /\ ret[1].err # Nil
    /\ Len(ret[1].items) = 2
    /\ rawPos < Len(rawSeq)

\* ------------------------------------------------------------------------
\* Properties of retryTransport.RoundTrip
\* ------------------------------------------------------------------------

\* The k-th inner call returned a response whose status the policy retries.
RetryableResponse(k) ==
    /\ respLog[k].err = Nil
    /\ \E i \in 1..Len(policy.RetryableStatusCodes[1]) :
          policy.RetryableStatusCodes[1][i] = respLog[k].status

\* The methods the transport is to retry under the policy.
RetriedMethod ==
    \/ method \in {"GET", "HEAD", "PUT", "DELETE"}
    \/ method = "POST" /\ policy.RetryPOST

\* RoundTrip returned through the cancellation branch of a backoff wait.
AbandonedInWait ==
    /\ rpc = "done"
    /\ rret = <<[resp |-> 0, err |-> CtxErr]>>
    /\ respLog # <<>>
    /\ respLog[Len(respLog)].err = Nil

\* C7: for a retried method and an inner transport that has answered every
\* call with a retryable status, in a call not abandoned through its
\* context during a wait, RoundTrip makes exactly MaxAttempts inner calls
\* and returns the last response, unclosed, with a nil error.
C7_RetryBound ==
    (/\ rpc # "idle"
     /\ RetriedMethod
     /\ ~AbandonedInWait
     /\ \A k \in 1..Len(respLog) : RetryableResponse(k)) =>
        /\ Len(respLog) <= policy.MaxAttempts
        /\ (rpc = "done") = (Len(respLog) = policy.MaxAttempts)
        /\ rpc = "done" =>
              /\ rret = <<[resp |-> policy.MaxAttempts, err |-> Nil]>>
              /\ policy.MaxAttempts \notin closed
              /\ closed = 1..(policy.MaxAttempts - 1)

\* C7 witness: three retryable answers to a GET under MaxAttempts = 3.
C7_Witness ==
    /\ rpc = "done"
    /\ method = "GET"
    /\ policy.MaxAttempts = 3
    /\ Len(respLog) = 3
    /\ \A k \in 1..3 : RetryableResponse(k)

\* C8: an inner call that returns an error is the last one; RoundTrip
\* returns a nil response and that error, and no wait follows it.
C8_NoRetryOnError ==
    \A k \in 1..Len(respLog) :
       respLog[k].err # Nil =>
          /\ k = Len(respLog)
          /\ rpc = "done"
          /\ rret = <<[resp |-> 0, err |-> respLog[k].err]>>
          /\ Len(waits) = k - 1
          /\ closed = 1..(k - 1)

\* C8 witness: the second attempt of a call with MaxAttempts = 3 failed
\* with a transport error.
C8_Witness ==
    /\ policy.MaxAttempts = 3
    /\ Len(respLog) = 2
    /\ respLog[2].err = "connection refused"
    /\ rpc = "done"

\* C9: GET, HEAD, PUT and DELETE are retried on a retryable status, POST
\* exactly when RetryPOST is set: the response is closed, a wait is entered
\* and, unless the call is abandoned in that wait, a further inner call
\* follows; any other request makes one inner call whose result is returned
\* as it is.
C9_MethodClassification ==
    /\ (rpc # "idle" /\ ~RetriedMethod) =>
          /\ Len(respLog) <= 1
          /\ closed = {}
          /\ waits = <<>>
          /\ (rpc = "done") = (Len(respLog) = 1)
          /\ rpc = "done" =>
                rret = <<[resp |-> IF respLog[1].err = Nil THEN 1 ELSE 0,
                          err |-> respLog[1].err]>>
    /\ (/\ rpc # "idle"
        /\ RetriedMethod
        /\ policy.MaxAttempts > 1
        /\ respLog # <<>>
        /\ RetryableResponse(1)) =>
          /\ 1 \in closed
          /\ waits # <<>>
          /\ (rpc = "done" /\ ~AbandonedInWait) => Len(respLog) >= 2

\* C9 witness: a POST under RetryPOST has been sent a second time after a
\* retryable status.
C9_Witness ==
    /\ method = "POST"
    /\ policy.RetryPOST
    /\ Len(respLog) = 2
    /\ RetryableResponse(1)

\* C10: a response whose status is not retryable ends the call: it is the
\* last inner call and RoundTrip returns it, unclosed, with a nil error.
C10_StopsAtNonRetryable ==
    \A j \in 1..Len(respLog) :
       (respLog[j].err = Nil /\ ~RetryableResponse(j)) =>
          /\ j = Len(respLog)
          /\ rpc = "done"
          /\ rret = <<[resp |-> j, err |-> Nil]>>
          /\ j \notin closed
          /\ \A k \in 1..(j - 1) : RetryableResponse(k)

\* C10 witness: a PUT answered 503, 429 and then 404 under MaxAttempts = 3.
C10_Witness ==
    /\ method = "PUT"
    /\ Len(respLog) = 3
    /\ respLog[3].status = 404
    /\ respLog[3].err = Nil
    /\ rpc = "done"

\* C13: when the context is cancelled while RoundTrip is blocked in a
\* backoff wait, the wait ends at once without the delay being completed
\* (the loop variable does not advance), RoundTrip returns a nil response
\* and the context's error, no inner call is made then or later, and fewer
\* than max_attempts inner calls have been made.
C13_CancelEndsWait ==
    /\ [][(rpc = "waiting" /\ cancelled') =>
             /\ rpc' = "done"
             /\ rret' = <<[resp |-> 0, err |-> CtxErr]>>
             /\ attempt' = attempt
             /\ respLog' = respLog
             /\ Len(respLog) < policy.MaxAttempts]_vars
    /\ [][rpc = "done" => (rpc' = "done" /\ respLog' = respLog /\ rret' = rret)]_vars

\* A call abandoned in its second wait after two of three attempts.
C13_Witness ==
    /\ rpc = "done"
    /\ cancelled
    /\ policy.MaxAttempts = 3
    /\ Len(respLog) = 2
    /\ Len(waits) = 2
    /\ \A k \in 1..2 : RetryableResponse(k)
    /\ rret = <<[resp |-> 0, err |-> CtxErr]>>

\* The smaller of two durations.
Smaller(a, b) == IF a <= b THEN a ELSE b

\* min(initial_backoff * 2^att, max_backoff) for the policy in use.
CappedDelay(att) ==
    Smaller(policy.InitialBackoff * (2 ^ att), policy.MaxBackoff)

\* The responses received so far.
Received == {k \in 1..Len(respLog) : respLog[k].err = Nil}

\* C25: the attempts of one RoundTrip call are strictly sequential and no
\* response leaks: a further inner call is made only when the response of
\* the one before has been received and closed and the wait after it has
\* ended; every response that is not returned is closed exactly once, and
\* the response that is returned is never closed.
C25_SequentialNoLeak ==
    /\ [](rpc # "idle" =>
            /\ closes = Cardinality(closed)
            /\ closed \subseteq Received
            /\ \A k \in 1..(Len(respLog) - 1) : k \in closed
            /\ rpc = "done" =>
                  closed = Received \ {rret[1].resp})
    /\ [][(Len(respLog') > Len(respLog) /\ respLog # <<>>) =>
             /\ Len(respLog') = Len(respLog) + 1
             /\ Len(respLog) \in Received
             /\ Len(respLog) \in closed
             /\ Len(waits) = Len(respLog)
             /\ rpc = "attempt"
             /\ attempt = Len(respLog)]_vars

\* Two responses were closed once each and the third was returned open.
C25_Witness ==
    /\ rpc = "done"
    /\ Len(respLog) = 3
    /\ closed = {1, 2}
    /\ closes = 2
    /\ rret = <<[resp |-> 3, err |-> Nil]>>

\* The i-th wait has the duration backoff gives for zero-based attempt
\* i - 1: the capped exponential delay, or with jitter a duration below it.
WaitUsesBackoff(i) ==
    IF policy.Jitter
    THEN waits[i] >= 0 /\ waits[i] < CappedDelay(i - 1)
    ELSE waits[i] = CappedDelay(i - 1)

\* C26: a backoff wait is entered only after a zero-based attempt n that
\* returned a retryable status with n < max_attempts - 1, and it uses
\* backoff(n); no wait is entered after a transport error, after a
\* non-retryable status or after the last allowed attempt.  A call that
\* returns the result of its j-th attempt has made exactly j - 1 waits; a
\* call abandoned through its context in a wait has entered j waits and
\* completed j - 1.
C26_WaitStateMachine ==
    rpc # "idle" =>
        /\ \A i \in 1..Len(waits) :
              /\ i <= Len(respLog)
              /\ RetryableResponse(i)
              /\ i - 1 < policy.MaxAttempts - 1
              /\ WaitUsesBackoff(i)
        /\ \A k \in 1..Len(respLog) :
              (\/ respLog[k].err # Nil
               \/ ~RetryableResponse(k)
               \/ k - 1 = policy.MaxAttempts - 1) => Len(waits) = k - 1
        /\ ~RetriedMethod => waits = <<>>
        /\ RetriedMethod => Len(waits) \in {Len(respLog) - 1, Len(respLog)}
        /\ (rpc = "done" /\ RetriedMethod) =>
              Len(waits) = IF AbandonedInWait THEN Len(respLog) ELSE Len(respLog) - 1

\* A call that ended with its third attempt after waits of backoff(0) and
\* backoff(1), here 100 ms and 200 ms.
C26_Witness ==
    /\ rpc = "done"
    /\ ~policy.Jitter
    /\ Len(respLog) = 3
    /\ waits = <<1, 2>>
    /\ rret = <<[resp |-> 3, err |-> Nil]>>

\* The k-th inner call of call c returned a response with a status the
\* policy retries.
CallRetryable(c, k) ==
    /\ calls[c].log[k].err = Nil
    /\ \E i \in 1..Len(policy.RetryableStatusCodes[1]) :
          policy.RetryableStatusCodes[1][i] = calls[c].log[k].status

\* The k-th inner call of call c is one after which RoundTrip returns.
CallEnds(c, k) ==
    \/ calls[c].method \notin {"GET", "HEAD", "PUT", "DELETE"}
    \/ ~CallRetryable(c, k)
    \/ k = policy.MaxAttempts

\* Call c returned the context's error from a backoff wait.
CallAbandoned(c) ==
    /\ calls[c].pc = "done"
    /\ calls[c].ret = <<[resp |-> 0, err |-> CtxErr]>>

\* C27: RoundTrip calls running at once on one retryTransport share no
\* mutable state: every call counts its own attempts, so it makes between
\* 1 and max_attempts inner calls as its own responses dictate, whatever
\* the other calls do, and no step of any call writes the policy.
C27_NoSharedState ==
    /\ [](\A c \in DOMAIN calls :
            LET n == Len(calls[c].log)
            IN /\ n <= policy.MaxAttempts
               /\ calls[c].attempt =
                     IF calls[c].pc = "attempt" THEN n
                     ELSE IF n = 0 THEN 0 ELSE n - 1
               /\ \A k \in 1..(n - 1) : ~CallEnds(c, k)
               /\ calls[c].pc = "done" =>
                     /\ n >= 1
                     /\ CallEnds(c, n) \/ CallAbandoned(c)
               /\ (n >= 1 /\ CallEnds(c, n)) =>
                     /\ calls[c].pc = "done"
                     /\ calls[c].ret =
                           <<[resp |-> IF calls[c].log[n].err = Nil THEN n ELSE 0,
                              err |-> calls[c].log[n].err]>>)
    /\ [][policy' = policy]_vars

\* Under MaxAttempts = 2 one call has returned its second response while
\* the other, started at the same time, is still in its first pass.
C27_Witness ==
    /\ calls # <<>>
    /\ policy.MaxAttempts = 2
    /\ calls[1].pc = "done"
    /\ Len(calls[1].log) = 2
    /\ calls[1].ret = <<[resp |-> 2, err |-> Nil]>>
    /\ calls[2].method = "GET"
    /\ calls[2].pc = "start"
    /\ calls[2].attempt = 0

\* C30: every retry attempt sends the same request content as the first:
\* the body the inner transport gets on a later attempt equals the body
\* it got on the first attempt, even after the first attempt has read the
\* body stream to its end.
C30_SameBodyEveryAttempt ==
    \A k \in 2..Len(sent) : sent[k] = sent[1]

\* ------------------------------------------------------------------------
\* Properties of backoff and defaults
\* ------------------------------------------------------------------------

\* The delays of attempts 0..5 for initial = 100 ms and max = 1 s.
ExampleDelays == <<1, 2, 4, 8, 10, 10>>

\* C11: without jitter, backoff(attempt) is exactly
\* min(initial_backoff * 2^attempt, max_backoff) for every attempt >= 0;
\* the delay never decreases from one attempt to the next, never exceeds
\* max_backoff, and for initial = 100 ms, max = 1 s attempts 0..5 give
\* 100, 200, 400, 800, 1000, 1000 ms.
C11_BackoffNoJitter ==
    (ppc = "backoff" /\ ~policy.Jitter /\ boDelay # <<>>) =>
        LET att == boAttempt - 1
            d == boDelay[1]
        IN /\ d = CappedDelay(att)
           /\ d <= policy.MaxBackoff
           /\ boPrev # <<>> => boPrev[1] <= d
           /\ (policy.InitialBackoff = 1 /\ policy.MaxBackoff = 10 /\ att <= 5)
                 => d = ExampleDelays[att + 1]

\* backoff has answered for attempt 5 of the 100 ms / 1 s policy, capped.
C11_Witness ==
    /\ ppc = "backoff"
    /\ ~policy.Jitter
    /\ policy.InitialBackoff = 1
    /\ policy.MaxBackoff = 10
    /\ boAttempt = 6
    /\ boDelay = <<10>>
    /\ boPrev = <<10>>

\* C12 as stated: with jitter the delay is a value of the closed interval
\* [0, d], d = min(initial_backoff * 2^attempt, max_backoff): never
\* negative, never greater than d, and d itself is a possible outcome.
C12_JitterClosedInterval ==
    (ppc = "backoff" /\ policy.Jitter) =>
        /\ boDelay # <<>> =>
              /\ boDelay[1] >= 0
              /\ boDelay[1] <= CappedDelay(boAttempt - 1)
        /\ CappedDelay(boAttempt) \in backoff(policy, boAttempt)

\* C12 amended: with jitter the delay is a value of the half-open interval
\* [0, d): never negative and always smaller than d; every value from 0 to
\* d - 1 is a possible outcome and the ceiling d is not.
C12_JitterHalfOpen ==
    (ppc = "backoff" /\ policy.Jitter) =>
        /\ boDelay # <<>> =>
              /\ boDelay[1] >= 0
              /\ boDelay[1] < CappedDelay(boAttempt - 1)
        /\ backoff(policy, boAttempt) = 0..(CappedDelay(boAttempt) - 1)

\* A jittered delay one below the ceiling of attempt 3 of the 100 ms / 1 s
\* policy.
C12_Witness ==
    /\ ppc = "backoff"
    /\ policy.Jitter
    /\ policy.InitialBackoff = 1
    /\ policy.MaxBackoff = 10
    /\ boAttempt = 4
    /\ boDelay = <<7>>

CallsOf(op, n) == {i \in 1..Len(lLog) : lLog[i].op = op /\ lLog[i].req = n}

\* RoundTrip has returned for request n.
Finished(n) == n <= Len(lrets)

\* C15: for every request, limiter.Wait is called exactly once (never
\* again), with the request's context, and before the request reaches the
\* inner transport; when Wait fails the inner transport is not called and
\* RoundTrip returns a nil response with the limiter's error unchanged;
\* when Wait succeeds the inner transport is called exactly once and
\* RoundTrip returns its result as it is.
C15_WaitBeforeInner ==
    \A n \in 1..Len(lreqs) :
        LET ws == CallsOf("Wait", n)
            bs == CallsOf("RoundTrip", n)
        IN /\ Cardinality(ws) <= 1
           /\ Cardinality(bs) <= 1
           /\ \A i \in ws : lLog[i].ctx = lreqs[n]
           /\ \A i \in bs : \E j \in ws : j < i /\ lLog[j].err = Nil
           /\ Finished(n) =>
                 /\ Cardinality(ws) = 1
                 /\ \A j \in ws :
                      IF lLog[j].err # Nil
                      THEN /\ bs = {}
                           /\ lrets[n] = [resp |-> 0, err |-> lLog[j].err]
                      ELSE /\ Cardinality(bs) = 1
                           /\ \A i \in bs :
                                lrets[n] = [resp |-> lLog[i].resp, err |-> lLog[i].err]

\* A request refused by the limiter, then one let through and answered.
C15_Witness ==
    /\ lpc = "done"
    /\ Len(lreqs) = 2
    /\ lreqs[1] # lreqs[2]
    /\ Len(lLog) = 3
    /\ lLog[1].op = "Wait" /\ lLog[1].err \in LimiterErrors
    /\ lLog[2].op = "Wait" /\ lLog[2].err = Nil
    /\ lLog[3].op = "RoundTrip" /\ lLog[3].resp = 200
    /\ lrets[1] = [resp |-> 0, err |-> lLog[1].err]
    /\ lrets[2] = [resp |-> 200, err |-> Nil]

\* ------------------------------------------------------------------------
\* Properties of WebhookVerifier.Verify
\* ------------------------------------------------------------------------

\* Verify has returned.
Verified == verr # <<>>

\* The timestamp header parses as an integer of the type.
TimestampParses == ParseInt(tsHeader).ok

\* The distance in seconds between now and the timestamp, as a number.
TrueDistance ==
    LET ts == ParseInt(tsHeader).val
    IN IF now >= ts THEN now - ts ELSE ts - now

\* The distance does not exceed max_clock_skew (held in units of 100 ms).
WithinSkew == TrueDistance * 10 <= verifier.maxClockSkew

\* The signature header is hexadecimal and decodes to a signature's length.
SignatureWellFormed ==
    /\ DecodeString(sigHeader).ok
    /\ Len(DecodeString(sigHeader).bytes) = SignatureSize

\* The signature header is the signature of a configured key over the
\* timestamp header's bytes followed by the body the request arrived with.
SomeKeyValidates ==
    \E i \in 1..Len(verifier.publicKeys) :
        DecodeString(sigHeader).bytes =
            Sign(verifier.publicKeys[i], BytesOf(tsHeader) \o origBody.data)

\* The body is longer than max_body_bytes.
OverLimit == Len(origBody.data) > verifier.maxBodyBytes

\* The body stream fails before more than max_body_bytes have arrived.
ReadFails == origBody.err /\ ~OverLimit

\* The code of the first condition of the documented order that the
\* request violates, Nil if it violates none.
FirstFailing ==
    IF tsHeader = <<>> THEN ErrMissingTimestamp
    ELSE IF sigHeader = <<>> THEN ErrMissingSignature
    ELSE IF ~TimestampParses THEN ErrInvalidTimestamp
    ELSE IF ~WithinSkew THEN ErrTimestampExpired
    ELSE IF ~SignatureWellFormed THEN ErrInvalidSignature
    ELSE IF ReadFails THEN ErrReadBody
    ELSE IF OverLimit THEN ErrBodyTooLarge
    ELSE IF ~SomeKeyValidates THEN ErrSignatureInvalid
    ELSE Nil

\* C16: Verify returns the code of the first failing condition in the
\* order missing timestamp, missing signature, non-integer timestamp,
\* timestamp outside the skew, malformed signature, body read failure,
\* body over the limit, no key validates; a request violating several
\* conditions reports the earliest, and a rejection always carries the
\* code of a condition the request violates.
C16_CheckOrder ==
    Verified => verr[1] = FirstFailing

\* C17: for every timestamp header that parses, Verify rejects with
\* ERR_TIMESTAMP_EXPIRED whenever the true distance |now - ts| exceeds
\* max_clock_skew, in the past and in the future, and does not reject on
\* this check when the distance is within max_clock_skew.
C17_TimestampWindow ==
    (Verified /\ tsHeader # <<>> /\ sigHeader # <<>> /\ TimestampParses) =>
        ((verr[1] = ErrTimestampExpired) <=> ~WithinSkew)

\* The request is as the sender made it: the signature header is the
\* hexadecimal signature of a configured key over timestamp || body, the
\* timestamp is within the skew, the body arrives whole and is not larger
\* than max_body_bytes.
ValidRequest ==
    /\ tsHeader # <<>>
    /\ TimestampParses
    /\ WithinSkew
    /\ SignatureWellFormed
    /\ SomeKeyValidates
    /\ ~origBody.err
    /\ ~OverLimit

\* C18: for a valid request Verify returns nil, and the body read after
\* Verify has returned is exactly the original bytes.
C18_RoundTrip ==
    (Verified /\ ValidRequest) =>
        /\ verr[1] = Nil
        /\ downstream # <<>> => downstream[1] = [data |-> origBody.data, err |-> FALSE]

\* C19: whatever Verify returns, nil or any of its error codes, a reader
\* of the request body after Verify gets exactly what the body held
\* before the call.
C19_Transparent ==
    downstream # <<>> => downstream[1] = [data |-> origBody.data, err |-> origBody.err]

\* The checks that precede the reading of the body have passed.
PrecedingChecksPassed ==
    /\ Verified
    /\ verr[1] \notin {ErrMissingTimestamp, ErrMissingSignature, ErrInvalidTimestamp,
                       ErrTimestampExpired, ErrInvalidSignature}

\* C20: once the header, timestamp and signature-format checks pass,
\* Verify returns ERR_BODY_TOO_LARGE if and only if the body is longer than
\* max_body_bytes; a body of exactly max_body_bytes that arrives whole goes
\* on to signature checking; and Verify never reads more than
\* max_body_bytes + 1 bytes from the body stream.
C20_BodyLimit ==
    Verified =>
        /\ bytesRead <= verifier.maxBodyBytes + 1
        /\ bytesRead <= Len(origBody.data)
        /\ ~PrecedingChecksPassed => bytesRead = 0
        /\ PrecedingChecksPassed =>
              /\ (verr[1] = ErrBodyTooLarge) <=> OverLimit
              /\ (Len(origBody.data) = verifier.maxBodyBytes /\ ~origBody.err)
                    => verr[1] \in {Nil, ErrSignatureInvalid}

\* A body one byte over the limit is refused after max_body_bytes + 1
\* bytes have been read.
C20_Witness ==
    /\ Verified
    /\ verifier.maxBodyBytes = 2
    /\ Len(origBody.data) = 3
    /\ verr = <<ErrBodyTooLarge>>
    /\ bytesRead = 3

\* C21: Verify returns nil if and only if both headers are present, the
\* timestamp parses and lies within the skew window, the signature is
\* well formed, the body arrives whole within the size limit, and one of
\* the configured keys validates the signature over the timestamp bytes
\* followed by the body bytes; with the preceding checks passed and the
\* body readable within the limit, a signature no configured key made
\* over timestamp || body (tampered body, unconfigured key) yields
\* ERR_SIGNATURE_INVALID.
C21_NoFalseAccept ==
    Verified =>
        /\ (verr[1] = Nil) <=> (sigHeader # <<>> /\ ValidRequest)
        /\ (PrecedingChecksPassed /\ ~origBody.err /\ ~OverLimit /\ ~SomeKeyValidates)
              => verr[1] = ErrSignatureInvalid

\* The handler returned by Middleware has served the request.
Served == mwResp # <<>>

\* C22: the handler returned by Middleware(next) invokes next exactly once
\* if Verify returns nil and never if Verify returns an error; on failure
\* the response has status 401 and carries the error's message as its
\* body; on success next finds the request body readable as the original
\* bytes.
C22_Middleware ==
    Served =>
        IF verr[1] = Nil
        THEN /\ Len(nextLog) = 1
             /\ nextLog[1] = [data |-> origBody.data, err |-> FALSE]
        ELSE /\ nextLog = <<>>
             /\ mwResp[1].status = 401
             /\ \E i \in 1..Len(mwResp[1].body) :
                    mwResp[1].body[i] = MessageOf(verr[1], sigHeader)

\* ------------------------------------------------------------------------
\* Properties of NewWebhookVerifier
\* ------------------------------------------------------------------------

\* NewWebhookVerifier has returned.
Constructed == ctorRet # <<>>

\* The key string is base64 of the SPKI structure of an Ed25519 key.
GoodKey(s) == s.text = "base64" /\ s.der = "spki" /\ s.alg = "ed25519"

\* The value the last option for the field sets, dflt if there is none.
Configured(field, dflt) ==
    LET at == {i \in 1..Len(ctorOpts) : ctorOpts[i].field = field}
    IN IF at = {} THEN dflt
       ELSE ctorOpts[CHOOSE i \in at : \A j \in at : j <= i].value

\* C23: NewWebhookVerifier returns ERR_NO_KEYS and no verifier for an
\* empty key list; ERR_INVALID_KEY and no verifier if any key fails
\* base64 decoding or SPKI parsing or is not an Ed25519 key, even if the
\* other keys are valid; otherwise a verifier holding one public key per
\* input key in input order, with max_clock_skew 5 minutes and
\* max_body_bytes 5 MiB unless an option overrides them.
C23_FailFast ==
    Constructed =>
        IF Len(ctorKeys) = 0
        THEN ctorRet[1] = [v |-> <<>>, err |-> ErrNoKeys]
        ELSE IF \E i \in 1..Len(ctorKeys) : ~GoodKey(ctorKeys[i])
        THEN ctorRet[1] = [v |-> <<>>, err |-> ErrInvalidKey]
        ELSE /\ ctorRet[1].err = Nil
             /\ Len(ctorRet[1].v) = 1
             /\ ctorRet[1].v[1].publicKeys = [i \in 1..Len(ctorKeys) |-> ctorKeys[i].key]
             /\ ctorRet[1].v[1].maxClockSkew = Configured("maxClockSkew", 5 * 60 * 10)
             /\ ctorRet[1].v[1].maxBodyBytes = Configured("maxBodyBytes", 5 * 1024 * 1024)

\* A valid key followed by an invalid one gives ERR_INVALID_KEY and no
\* verifier.
C23_Witness ==
    /\ Constructed
    /\ Len(ctorKeys) = 2
    /\ GoodKey(ctorKeys[1])
    /\ ~GoodKey(ctorKeys[2])
    /\ ctorRet[1] = [v |-> <<>>, err |-> ErrInvalidKey]

====
